---- MODULE Spec2Model ----
(***************************************************************************)
(* Flow state machine and job orchestrator of the campaign backend.        *)
(*                                                                         *)
(* The persisted store is the variable `steps` (one row sequence per       *)
(* flow, in creation order; a step's id is its position) together with     *)
(* `campaigns`.  Runners (the background scheduler loop and an HTTP run    *)
(* trigger) execute jobs on one event loop: a job runs atomically between  *)
(* two adapter awaits, and runners interleave at the awaits.               *)
(***************************************************************************)
EXTENDS Integers, Sequences, FiniteSets, TLC

\* ---------------------------------------------------------------- bounds
NumSpecs == 2            \* campaign specs (one target group, so one flow, each)
MaxIterations == 2       \* largest max_iterations a spec is given
NumImagesPerStep == 2    \* OrchestrationConfig.num_images_per_step (default 5)
MaxJobsPerRun == 2       \* SchedulerConfig.max_jobs_per_run / max_jobs
MaxSvcSteps == 2         \* steps per flow a direct client of the service creates
MaxFaults == 1           \* jobs of one behaviour whose adapter calls fail or answer oddly
NumRequests == 2         \* POST /campaigns/ requests that can be in flight together
MaxImages == 3           \* images handed to the winner selection
MaxScore == 1            \* composite scores of images are 0..MaxScore
MaxTopN == 2             \* largest top_n
MaxAssets == 3           \* assets of a pool handed to the narrowing
MaxDescriptions == 2     \* 'description:' tags of an image that are told apart
MaxSets == 3             \* largest num_sets of an asset selection
MaxSkips == 2            \* turns of a pass's loop without a job executed that are told apart

Specs == 1..NumSpecs
Flows == 1..NumSpecs
\* the tasks that run a pass over the pending jobs: JobScheduler.run_once
\* (a scheduler tick or POST /jobs/run) and POST /jobs/campaigns/{id}/run
RUN_ONCE == "run_once"
CAMPAIGN_RUN == "campaign_run"
Runners == {RUN_ONCE, CAMPAIGN_RUN}
\* a caller of FlowOrchestrator.execute_job with a job it holds
EXECUTE_JOB == "execute_job"

\* flow f belongs to the campaign of spec FlowCampaign(f)
FlowCampaign(f) == f

\* ------------------------------------------------------ FlowStepState
GENERATING == "generating"
COLLECTING_DATA == "collecting"
ANALYZING == "analyzing"
COMPLETED == "completed"
FlowStepState == {GENERATING, COLLECTING_DATA, ANALYZING, COMPLETED}

\* ------------------------------------------------------------ JobType
CREATE_FIRST_STEP == "create_first_step"
RUN_GENERATING == "run_generating"
RUN_COLLECTING_DATA == "run_collecting_data"
RUN_ANALYZING == "run_analyzing"
CREATE_NEXT_ITERATION == "create_next_iteration"

VARIABLES
    maxIter,     \* maxIter[s]: campaign_spec.max_iterations of the existing spec s
    campaigns,   \* specs that have a Campaign (its flows exist with it)
    steps,       \* steps[f]: FlowStep rows of flow f with their results
    run,         \* run[r]: position and locals of runner r
    res,         \* the JobResult of the job that returned in the last step
    poll,        \* what the discovery endpoint returned last
    svc,         \* last direct call of a CampaignService method
    faults,      \* jobs so far whose adapter calls failed or answered oddly
    creation,    \* the Campaign and CampaignFlow rows of each spec, and the
                 \* POST /campaigns/ requests in flight
    fn           \* a call of a function of the functions or steps package:
                 \* its arguments and, once it has returned, its result

vars == <<maxIter, campaigns, steps, run, res, poll, svc, faults, creation, fn>>

\* Job(job_type, flow_id, step_id, priority); step_id None is 0
Job(t, f, s, p) == [type |-> t, flow |-> f, step |-> s, priority |-> p]
NoJob == [type |-> "none", flow |-> 0, step |-> 0, priority |-> 0]

\* a column that is NULL, a relationship that has no row
None == "None"
\* an embedding is named by the iteration whose analysis computed it
NoEmbedding == 0 - 1

\* FlowStep(flow_id, iteration, state=GENERATING, input_embedding,
\* input_insights) with its 1:1 results:
\* gr: its GenerationResult rows and prompt: their prompt, images: its
\* GeneratedImage count, descriptions: the 'description:' tags each of these
\* images carries (MaxDescriptions: that many or more; followed in the passes
\* that count their jobs), metrics: the images that have an ImageMetrics row,
\* ar: its AnalysisResult rows with their qualitative_diff and output_embedding
FlowStep(it, input_embedding, input_insights) ==
    [iteration |-> it, state |-> GENERATING,
     input_embedding |-> input_embedding, input_insights |-> input_insights,
     gr |-> 0, prompt |-> None, images |-> 0, descriptions |-> 0, metrics |-> {},
     ar |-> 0, qualitative_diff |-> None, output_embedding |-> NoEmbedding]

\* ------------------------------------------------- repository queries
Max(S) == CHOOSE x \in S : \A y \in S : y <= x

\* CampaignRepository.get_latest_step: ORDER BY iteration DESC LIMIT 1 (0: None)
get_latest_step(db, f) ==
    IF db[f] = <<>> THEN 0
    ELSE CHOOSE i \in 1..Len(db[f]) :
            \A j \in 1..Len(db[f]) : db[f][j].iteration <= db[f][i].iteration

\* CampaignService.get_step: the row, or StepNotFoundError
step_exists(db, f, i) == i \in 1..Len(db[f])

\* ------------------------------------------------- CampaignService
\* an outcome of a service call: the store afterwards and the exception raised
Ok(db) == [db |-> db, err |-> "none", cur |-> "none", tgt |-> "none"]
Raise(db, e) == [db |-> db, err |-> e, cur |-> "none", tgt |-> "none"]
InvalidStateTransitionError(db, c, t) ==
    [db |-> db, err |-> "InvalidStateTransitionError", cur |-> c, tgt |-> t]

\* the iteration of the latest step again, not the one after it
next_iteration_repeated(db, f) ==
    LET l == get_latest_step(db, f) IN IF l = 0 THEN 0 ELSE db[f][l].iteration

\* the iteration create_step gives the new step
next_iteration(db, f) ==
    LET l == get_latest_step(db, f) IN IF l = 0 THEN 0 ELSE db[f][l].iteration + 1

\* create_step leaving the inputs of the new step empty
create_step_without_input(db, f, input_embedding, input_insights) ==
    [db EXCEPT ![f] = Append(@, FlowStep(next_iteration(db, f), NoEmbedding, None))]

\* CampaignService.create_step(FlowStepCreate(flow_id, input_embedding,
\* input_insights))
create_step(db, f, input_embedding, input_insights) ==
    [db EXCEPT ![f] = Append(@, FlowStep(next_iteration(db, f),
                                         input_embedding, input_insights))]

has_generation_result(db, f, i) == db[f][i].gr > 0

\* get_analysis_result_by_step taken to find a row for every step
has_analysis_result_assumed(db, f, i) == TRUE

has_analysis_result(db, f, i) == db[f][i].ar > 0

\* transition_to_collecting without its check of the GenerationResult
transition_to_collecting_unchecked(db, f, i) ==
    IF ~step_exists(db, f, i) THEN Raise(db, "StepNotFoundError")
    ELSE IF db[f][i].state # GENERATING
         THEN InvalidStateTransitionError(db, db[f][i].state, COLLECTING_DATA)
    ELSE Ok([db EXCEPT ![f][i].state = COLLECTING_DATA])

transition_to_collecting(db, f, i) ==
    IF ~step_exists(db, f, i) THEN Raise(db, "StepNotFoundError")
    ELSE IF db[f][i].state # GENERATING
         THEN InvalidStateTransitionError(db, db[f][i].state, COLLECTING_DATA)
    ELSE IF ~has_generation_result(db, f, i) THEN Raise(db, "ValueError")
    ELSE Ok([db EXCEPT ![f][i].state = COLLECTING_DATA])

\* transition_to_analyzing without its check of the current state
transition_to_analyzing_unguarded(db, f, i) ==
    IF ~step_exists(db, f, i) THEN Raise(db, "StepNotFoundError")
    ELSE Ok([db EXCEPT ![f][i].state = ANALYZING])

transition_to_analyzing(db, f, i) ==
    IF ~step_exists(db, f, i) THEN Raise(db, "StepNotFoundError")
    ELSE IF db[f][i].state # COLLECTING_DATA
         THEN InvalidStateTransitionError(db, db[f][i].state, ANALYZING)
    ELSE Ok([db EXCEPT ![f][i].state = ANALYZING])

\* transition_to_completed raising with current and target state exchanged
transition_to_completed_exchanged(db, f, i) ==
    IF ~step_exists(db, f, i) THEN Raise(db, "StepNotFoundError")
    ELSE IF db[f][i].state # ANALYZING
         THEN InvalidStateTransitionError(db, COMPLETED, db[f][i].state)
    ELSE IF ~has_analysis_result(db, f, i) THEN Raise(db, "ValueError")
    ELSE Ok([db EXCEPT ![f][i].state = COMPLETED])

transition_to_completed(db, f, i) ==
    IF ~step_exists(db, f, i) THEN Raise(db, "StepNotFoundError")
    ELSE IF db[f][i].state # ANALYZING
         THEN InvalidStateTransitionError(db, db[f][i].state, COMPLETED)
    ELSE IF ~has_analysis_result(db, f, i) THEN Raise(db, "ValueError")
    ELSE Ok([db EXCEPT ![f][i].state = COMPLETED])

\* create_generation_result on a table without the unique constraint
create_generation_result_unconstrained(db, f, i, prompt) ==
    Ok([db EXCEPT ![f][i].gr = @ + 1, ![f][i].prompt = prompt])

\* create_generation_result: step_id is unique, a second row is an IntegrityError
create_generation_result(db, f, i, prompt) ==
    IF db[f][i].gr > 0 THEN Raise(db, "IntegrityError")
    ELSE Ok([db EXCEPT ![f][i].gr = @ + 1, ![f][i].prompt = prompt])

\* create_analysis_result(AnalysisResultCreate(step_id, output_embedding,
\* qualitative_diff)): qualitative_diff is a str, None does not validate;
\* step_id is unique
create_analysis_result(db, f, i, output_embedding, qualitative_diff) ==
    IF qualitative_diff = None THEN Raise(db, "ValidationError")
    ELSE IF db[f][i].ar > 0 THEN Raise(db, "IntegrityError")
    ELSE Ok([db EXCEPT ![f][i].ar = @ + 1,
                       ![f][i].qualitative_diff = qualitative_diff,
                       ![f][i].output_embedding = output_embedding])

\* create_generated_image under the step numbered i of every flow
create_generated_image_of_any_flow(db, f, i) ==
    [g \in DOMAIN db |->
        IF i \in 1..Len(db[g]) THEN [db[g] EXCEPT ![i].images = @ + 1] ELSE db[g]]

\* create_generated_image under the step's GenerationResult
create_generated_image(db, f, i) ==
    [db EXCEPT ![f][i].images = @ + 1]

\* ------------------------------------------------------- job discovery
RECURSIVE SeqOfSet(_)
\* the rows of a query in id order
SeqOfSet(S) ==
    IF S = {} THEN <<>>
    ELSE LET m == Max(S) IN Append(SeqOfSet(S \ {m}), m)

\* CampaignRepository.get_flows_by_campaign
get_flows_by_campaign(c) ==
    IF c \in campaigns THEN SeqOfSet({f \in Flows : FlowCampaign(f) = c}) ELSE <<>>

RECURSIVE FlowsOfCampaigns(_)
FlowsOfCampaigns(cs) ==
    IF cs = <<>> THEN <<>>
    ELSE get_flows_by_campaign(Head(cs)) \o FlowsOfCampaigns(Tail(cs))

\* the flows get_next_job scans: those of campaign_id, or of get_campaigns()
scanned_flows(campaign_id) ==
    IF campaign_id # 0 THEN get_flows_by_campaign(campaign_id)
    ELSE FlowsOfCampaigns(SeqOfSet(campaigns))

\* JobScheduler._get_campaign_spec, flow.campaign.campaign_spec: the spec row
\* of campaign c can be loaded
spec_loaded(c) == c \in DOMAIN maxIter

\* the comparison with max_iterations instead of max_iterations - 1
more_iterations_needed_up_to_max(iteration, max_iterations) == iteration < max_iterations

\* the branch taken for a COMPLETED latest step
more_iterations_needed(iteration, max_iterations) == iteration < max_iterations - 1

\* FlowOrchestrator._get_job_for_flow
get_job_for_flow(db, f) ==
    LET l == get_latest_step(db, f) IN
    IF l = 0 THEN Job(CREATE_FIRST_STEP, f, 0, 0)
    ELSE IF db[f][l].state = GENERATING THEN Job(RUN_GENERATING, f, l, 1)
    ELSE IF db[f][l].state = COLLECTING_DATA THEN Job(RUN_COLLECTING_DATA, f, l, 2)
    ELSE IF db[f][l].state = ANALYZING THEN Job(RUN_ANALYZING, f, l, 3)
    ELSE IF /\ spec_loaded(FlowCampaign(f))
            /\ more_iterations_needed(db[f][l].iteration, maxIter[FlowCampaign(f)])
         THEN Job(CREATE_NEXT_ITERATION, f, l, 0)
    ELSE NoJob

\* Job.__lt__
job_lt(a, b) == a.priority < b.priority

\* an insertion that puts j before the jobs of its priority
insert_job_before_equal(sorted, j) ==
    LET k == Cardinality({i \in 1..Len(sorted) : job_lt(sorted[i], j)})
    IN  SubSeq(sorted, 1, k) \o <<j>> \o SubSeq(sorted, k + 1, Len(sorted))

\* list.sort() with Job.__lt__: a stable insertion of j into the sorted prefix
insert_job(sorted, j) ==
    LET k == Cardinality({i \in 1..Len(sorted) : ~job_lt(j, sorted[i])})
    IN  SubSeq(sorted, 1, k) \o <<j>> \o SubSeq(sorted, k + 1, Len(sorted))

RECURSIVE sort_jobs(_)
sort_jobs(js) ==
    IF js = <<>> THEN <<>>
    ELSE insert_job(sort_jobs(SubSeq(js, 1, Len(js) - 1)), js[Len(js)])

RECURSIVE due_jobs(_, _)
\* the jobs list built by the scan loop, in scan order
due_jobs(db, fs) ==
    IF fs = <<>> THEN <<>>
    ELSE LET j == get_job_for_flow(db, Head(fs)) IN
         (IF j = NoJob THEN <<>> ELSE <<j>>) \o due_jobs(db, Tail(fs))

\* FlowOrchestrator.get_all_pending_jobs
get_all_pending_jobs(db, campaign_id) == sort_jobs(due_jobs(db, scanned_flows(campaign_id)))

\* FlowOrchestrator.get_next_job
get_next_job(db, campaign_id) ==
    LET jobs == due_jobs(db, scanned_flows(campaign_id)) IN
    IF jobs = <<>> THEN NoJob ELSE sort_jobs(jobs)[1]

\* ------------------------------------------------------- job results
\* JobResult(job, success, error); used_fallback: the analytics of a
\* RUN_COLLECTING_DATA job were the fallback ones, analysis_fallback and
\* prompt_fallback: the analysis and the refined prompt of a RUN_ANALYZING
\* job were the fallback ones (recorded by the passes that count their
\* jobs); produced/attempted: images created and
\* asset sets tried by a RUN_GENERATING job; after: the step's state when
\* the job returned
JobResult(job, ok, e, produced, attempted, after) ==
    [job |-> job, success |-> ok, error |-> e, produced |-> produced,
     attempted |-> attempted, after |-> after, used_fallback |-> FALSE,
     analysis_fallback |-> FALSE, prompt_fallback |-> FALSE, next_job |-> NoJob]
NoResult == JobResult(NoJob, FALSE, "none", 0, 0, "none")

state_of(db, job) ==
    IF job.step = 0 \/ ~step_exists(db, job.flow, job.step) THEN "none"
    ELSE db[job.flow][job.step].state

\* a runner: counted: the pass has max_jobs = MaxJobsPerRun and counts its
\* jobs; not counted: its max_jobs is left open, the pass may end after any job
\* before: the row of the job's step as the running job found it; executed:
\* the execute_job calls of the pass so far (both recorded by the passes that
\* count their jobs, as is analysis_fallback: analyze_winning_images gave its
\* fallback analysis)
NoStep == FlowStep(0 - 1, NoEmbedding, None)
Idle == [pc |-> "idle", scope |-> 0, stop_on_error |-> FALSE, counted |-> FALSE,
         processed |-> 0, job |-> NoJob, i |-> 0, produced |-> 0, nimg |-> 0,
         before |-> NoStep, executed |-> 0, analysis_fallback |-> FALSE,
         skipped |-> 0]

NoStatus == [error |-> "none", total_flows |-> 0, pending_jobs |-> 0, flows |-> <<>>]
NoPoll == [scope |-> 0 - 1, next |-> NoJob, jobs |-> <<>>, again |-> FALSE]
NoCall == [op |-> "none", flow |-> 0, step |-> 0, before |-> "none",
           err |-> "none", cur |-> "none", tgt |-> "none", after |-> "none",
           same |-> TRUE]

\* select_asset_sets: num_sets sets from a non-empty pool, none from an empty one
num_asset_sets(pool_empty) == IF pool_empty THEN 0 ELSE NumImagesPerStep

\* the errors of a JobResult that come from an exception caught by execute_job
CaughtExceptions == {"AttributeError", "IntegrityError", "ValueError",
                     "ValidationError", "StepNotFoundError",
                     "InvalidStateTransitionError"}

\* execute_job without its except branch: the exception leaves the handler,
\* the pass and the loop that called it
Finish_propagating(r, db, result) ==
    /\ steps' = db
    /\ res' = result
    /\ run' = [run EXCEPT ![r] =
                 IF result.error \in CaughtExceptions
                 THEN [Idle EXCEPT !.pc = "raised"]
                 ELSE [Idle EXCEPT !.pc = "loop", !.scope = run[r].scope,
                                   !.stop_on_error = run[r].stop_on_error,
                                   !.counted = run[r].counted]]

\* the job returns: execute_job hands the JobResult to the pass, which counts
\* it and goes on (run_once) or stops on a failure (run_campaign_jobs)
Finish(r, db, result) ==
    /\ steps' = db
    /\ res' = result
    /\ run' = [run EXCEPT ![r] =
                 IF run[r].stop_on_error /\ ~result.success THEN Idle
                 ELSE IF run[r].counted /\ run[r].processed + 1 >= MaxJobsPerRun
                      THEN Idle
                 ELSE [Idle EXCEPT !.pc = "loop", !.scope = run[r].scope,
                                   !.stop_on_error = run[r].stop_on_error,
                                   !.counted = run[r].counted,
                                   !.processed = IF run[r].counted
                                                 THEN run[r].processed + 1 ELSE 0,
                                   !.executed = IF run[r].counted
                                                THEN run[r].executed + 1 ELSE 0]]

\* _execute_analyzing taking every completed step to be followed by another
another_iteration_always(iteration, max_iterations) == TRUE

\* _execute_analyzing: `if step.iteration < max_iterations - 1`
another_iteration(iteration, max_iterations) == iteration < max_iterations - 1

\* the next_job of the JobResult of a successful job, db being the store it
\* leaves: each executor builds it from its own step (the row create_step
\* has just added is the last one); None after the last iteration
next_job(db, job) ==
    CASE job.type \in {CREATE_FIRST_STEP, CREATE_NEXT_ITERATION} ->
            Job(RUN_GENERATING, job.flow, Len(db[job.flow]), 1)
      [] job.type = RUN_GENERATING -> Job(RUN_COLLECTING_DATA, job.flow, job.step, 2)
      [] job.type = RUN_COLLECTING_DATA -> Job(RUN_ANALYZING, job.flow, job.step, 3)
      [] job.type = RUN_ANALYZING ->
            IF another_iteration(db[job.flow][job.step].iteration,
                                 maxIter[FlowCampaign(job.flow)])
            THEN Job(CREATE_NEXT_ITERATION, job.flow, job.step, 0)
            ELSE NoJob
      [] OTHER -> NoJob

Succeed(r, db, job, produced, attempted) ==
    Finish(r, db, [JobResult(job, TRUE, "none", produced, attempted, state_of(db, job))
                       EXCEPT !.next_job = next_job(db, job)])

Fail(r, db, job, e, produced, attempted) ==
    Finish(r, db, JobResult(job, FALSE, e, produced, attempted, state_of(db, job)))

\* ----------------------------------------------------------- campaigns
Requests == 1..NumRequests

\* a request that is not being handled, with the outcome of its last handling
NoRequest == [pc |-> "idle", spec |-> 0, existing |-> FALSE, outcome |-> "none"]

\* the rows when the specs cs have one campaign each, created by requests
\* that have returned
Created(cs) ==
    [rows |-> [s \in Specs |-> IF s \in cs THEN 1 ELSE 0],
     flows |-> [s \in Specs |-> IF s \in cs THEN 1 ELSE 0],
     req |-> [q \in Requests |-> NoRequest]]

\* CampaignService.create_campaign: the campaign and the flow of its target
\* group, for a request that is handled alone
CreateCampaign(s) ==
    /\ s \in DOMAIN maxIter
    /\ s \notin campaigns
    /\ \A q \in Requests : creation.req[q].pc = "idle"
    /\ campaigns' = campaigns \cup {s}
    /\ creation' = [creation EXCEPT !.rows[s] = @ + 1, !.flows[s] = @ + 1]
    /\ res' = NoResult
    /\ UNCHANGED <<maxIter, steps, run, svc, faults>>

\* POST /campaigns/ up to the insert: the spec is looked up (404 without it)
\* and create_campaign reads get_campaigns_by_spec. The endpoint is a plain
\* def: requests run on the threads of the server's pool, each with its own
\* session, and interleave between their statements.
CreateRequestChecks(q, s) ==
    /\ creation.req[q].pc = "idle"
    /\ creation' = [creation EXCEPT !.req[q] =
                       IF s \notin DOMAIN maxIter
                       THEN [NoRequest EXCEPT !.outcome = "404"]
                       ELSE [pc |-> "checked", spec |-> s,
                             existing |-> creation.rows[s] > 0, outcome |-> "none"]]
    /\ UNCHANGED <<maxIter, campaigns, steps, run, res, poll, svc, faults, fn>>

\* create_campaign after its query: CampaignAlreadyExistsError (409) if the
\* query returned a campaign, else the Campaign row is inserted and committed
CreateRequestInsertsCampaign(q) ==
    /\ creation.req[q].pc = "checked"
    /\ LET s == creation.req[q].spec IN
         IF creation.req[q].existing
         THEN /\ creation' = [creation EXCEPT !.req[q] =
                     [NoRequest EXCEPT !.outcome = "CampaignAlreadyExistsError"]]
              /\ UNCHANGED campaigns
         ELSE /\ creation' = [creation EXCEPT !.rows[s] = @ + 1,
                                              !.req[q].pc = "flows"]
              /\ campaigns' = campaigns \cup {s}
    /\ UNCHANGED <<maxIter, steps, run, res, poll, svc, faults, fn>>

\* the loop over spec.target_groups: the flow of the campaign is inserted and
\* committed, the request returns 201
CreateRequestInsertsFlows(q) ==
    /\ creation.req[q].pc = "flows"
    /\ creation' = [creation EXCEPT !.flows[creation.req[q].spec] = @ + 1,
                                    !.req[q] = [NoRequest EXCEPT !.outcome = "201"]]
    /\ UNCHANGED <<maxIter, campaigns, steps, run, res, poll, svc, faults, fn>>

\* create_flow raises, or the process stops, before the flow is committed:
\* the request ends without it (500), the committed Campaign row stays
CreateRequestBreaksOff(q) ==
    /\ creation.req[q].pc = "flows"
    /\ creation' = [creation EXCEPT !.req[q] = [NoRequest EXCEPT !.outcome = "500"]]
    /\ UNCHANGED <<maxIter, campaigns, steps, run, res, poll, svc, faults, fn>>

\* --------------------------------------------------------- scheduler
\* a first step for every flow, with or without steps
needs_first_step_always(db, f) == TRUE

\* the flows _ensure_first_steps_created finds without a step
needs_first_step(db, f) == get_latest_step(db, f) = 0

\* JobScheduler._ensure_first_steps_created: CREATE_FIRST_STEP for such flows
ensure_first_steps_created(db) ==
    [f \in Flows |->
        IF /\ FlowCampaign(f) \in campaigns
           /\ needs_first_step(db, f)
           /\ spec_loaded(FlowCampaign(f))
        THEN create_step(db, f, NoEmbedding, None)[f] ELSE db[f]]

\* the execute_job calls _ensure_first_steps_created makes: one for every flow
\* without a step
first_steps_missing(db) ==
    Cardinality({f \in Flows : /\ FlowCampaign(f) \in campaigns
                               /\ needs_first_step(db, f)
                               /\ spec_loaded(FlowCampaign(f))})

\* JobScheduler.run_once up to its loop (scheduler tick or POST /jobs/run)
StartRunOnce(r, counted) ==
    /\ r = RUN_ONCE
    /\ run[r].pc = "idle"
    /\ steps' = ensure_first_steps_created(steps)
    /\ run' = [run EXCEPT ![r] =
                 [Idle EXCEPT !.pc = "loop", !.counted = counted,
                              !.executed = IF counted THEN first_steps_missing(steps)
                                           ELSE 0]]
    /\ res' = NoResult
    /\ UNCHANGED <<maxIter, campaigns, svc, faults>>

\* POST /jobs/campaigns/{id}/run up to its loop; an unknown campaign is a 404
StartCampaignRun(r, c, counted) ==
    /\ r = CAMPAIGN_RUN
    /\ run[r].pc = "idle"
    /\ c \in campaigns
    /\ run' = [run EXCEPT ![r] = [Idle EXCEPT !.pc = "loop", !.scope = c,
                                              !.stop_on_error = TRUE,
                                              !.counted = counted]]
    /\ res' = NoResult
    /\ UNCHANGED <<maxIter, campaigns, steps, svc, faults>>

\* the job the loop of runner r discovers now (NoJob: leave the loop); a
\* caller of execute_job hands over the job it holds
discovered(r) ==
    IF run[r].job # NoJob THEN run[r].job
    ELSE IF run[r].counted /\ run[r].processed >= MaxJobsPerRun THEN NoJob
    ELSE get_next_job(steps, run[r].scope)

\* execute_job(job) called with a job built by the caller, for a step of the
\* flow or without step id: one job is executed and its JobResult returned;
\* the caller makes one call on the store it finds
CallExecuteJob(r, job) ==
    /\ r = EXECUTE_JOB
    /\ run[r].pc = "idle"
    /\ res = NoResult
    /\ FlowCampaign(job.flow) \in campaigns
    /\ job.step \in 0..Len(steps[job.flow])
    /\ run' = [run EXCEPT ![r] = [Idle EXCEPT !.pc = "loop", !.job = job,
                                              !.counted = TRUE,
                                              !.processed = MaxJobsPerRun - 1]]
    /\ res' = NoResult
    /\ UNCHANGED <<maxIter, campaigns, steps, svc, faults>>

\* a turn of the loop of runner r reaches execute_job with a job of this
\* type: run_once loads the flow, its campaign and the campaign spec of every
\* job first, the other callers hold the spec already
Executes(r, type) ==
    /\ run[r].pc = "loop"
    /\ discovered(r).type = type
    /\ r = RUN_ONCE => spec_loaded(FlowCampaign(discovered(r).flow))

\* a turn of the loop of run_once whose job has no campaign spec to load:
\* `continue`, with jobs_processed as it was (skipped counts these turns)
LoopContinues(r) ==
    /\ r = RUN_ONCE
    /\ run[r].pc = "loop"
    /\ discovered(r) # NoJob
    /\ ~spec_loaded(FlowCampaign(discovered(r).flow))
    /\ run' = [run EXCEPT ![r].skipped = IF @ < MaxSkips THEN @ + 1 ELSE MaxSkips]
    /\ UNCHANGED <<maxIter, campaigns, steps, res, svc, faults>>

\* the loop ends: max_jobs processed, or get_next_job returned None
PassEnds(r) ==
    /\ run[r].pc = "loop"
    /\ discovered(r) = NoJob \/ ~run[r].counted
    /\ run' = [run EXCEPT ![r] = Idle]
    /\ res' = NoResult
    /\ UNCHANGED <<maxIter, campaigns, steps, svc, faults>>

\* FlowOrchestrator._execute_create_first_step
ExecuteCreateFirstStep(r) ==
    /\ Executes(r, CREATE_FIRST_STEP)
    /\ LET job == discovered(r)
       IN  Succeed(r, create_step(steps, job.flow, NoEmbedding, None), job, 0, 0)
    /\ UNCHANGED <<maxIter, campaigns, svc, faults>>

\* FlowOrchestrator._execute_create_next_iteration
ExecuteCreateNextIteration(r) ==
    /\ Executes(r, CREATE_NEXT_ITERATION)
    /\ LET job == discovered(r) IN
         IF job.step = 0 THEN Fail(r, steps, job, "No step_id provided", 0, 0)
         ELSE IF ~has_analysis_result(steps, job.flow, job.step)
              THEN Fail(r, steps, job, "No analysis result found", 0, 0)
         ELSE LET analysis == steps[job.flow][job.step]
              IN  Succeed(r, create_step(steps, job.flow, analysis.output_embedding,
                                         analysis.qualitative_diff), job, 0, 0)
    /\ UNCHANGED <<maxIter, campaigns, svc, faults>>

\* runner r goes on inside its job, waiting at an adapter call
Await(r, db, pc, job, i, produced, nimg) ==
    /\ steps' = db
    /\ run' = [run EXCEPT ![r] = [@ EXCEPT !.pc = pc, !.job = job, !.i = i,
                                           !.produced = produced, !.nimg = nimg,
                                           !.before = IF run[r].pc = "loop" /\ run[r].counted
                                                      THEN steps[job.flow][job.step]
                                                      ELSE @]]
    /\ res' = NoResult

\* an adapter call answers; odd: it is the first call of its job that fails or
\* whose answer is not the expected one
Adapter(odd) ==
    /\ odd => faults < MaxFaults
    /\ faults' = IF odd THEN faults + 1 ELSE faults

\* CampaignFlow.initial_prompt: the base_prompt of the campaign spec
initial_prompt == "base"

\* the prompt _execute_generating takes: `if step.input_insights` is false
\* for None and for the empty string
prompt_to_use(step) ==
    IF step.input_insights \notin {None, ""} THEN step.input_insights
    ELSE initial_prompt

\* _execute_generating up to its first generate_image_with_flux call.
\* repository.delete_generation_result is not defined by CampaignRepository:
\* with an existing GenerationResult the call raises AttributeError, which
\* execute_job turns into a failed JobResult.
StartGenerating(r, pool_empty) ==
    /\ Executes(r, RUN_GENERATING)
    /\ LET job == discovered(r)
           prompt == prompt_to_use(steps[job.flow][job.step])
           g == create_generation_result(steps, job.flow, job.step, prompt)
       IN  IF job.step = 0 THEN Fail(r, steps, job, "No step_id provided", 0, 0)
           ELSE IF has_generation_result(steps, job.flow, job.step)
           THEN Fail(r, steps, job, "AttributeError", 0, 0)
           ELSE IF num_asset_sets(pool_empty) = 0
                THEN Fail(r, g.db, job, "No images were generated", 0, 0)
           ELSE Await(r, g.db, "generate_image", job, 1, 0, 0)
    /\ Adapter(pool_empty)
    /\ UNCHANGED <<maxIter, campaigns, svc>>

\* the check after the asset-set loop asking for an asset set tried
any_image_generated_or_attempted(produced, attempted) == attempted > 0

\* the check after the asset-set loop: did this run generate an image
any_image_generated(produced, attempted) == produced > 0

\* the loop goes on to the next asset set after set i
more_asset_sets(i, image_ok) == i < NumImagesPerStep

\* generate_image_with_flux returns for asset set i (image_ok: success and a
\* url); after the last set the job ends: no image fails it, else
\* transition_to_collecting
GenerateImageReturns(r, image_ok) ==
    /\ run[r].pc = "generate_image"
    /\ LET job == run[r].job
           db == IF image_ok THEN create_generated_image(steps, job.flow, job.step)
                 ELSE steps
           produced == run[r].produced + (IF image_ok THEN 1 ELSE 0)
           t == transition_to_collecting(db, job.flow, job.step)
       IN  IF more_asset_sets(run[r].i, image_ok)
           THEN Await(r, db, "generate_image", job, run[r].i + 1, produced, 0)
           ELSE IF ~any_image_generated(produced, run[r].i)
                THEN Fail(r, db, job, "No images were generated", produced, run[r].i)
           ELSE IF t.err # "none" THEN Fail(r, db, job, t.err, produced, run[r].i)
           ELSE Succeed(r, t.db, job, produced, run[r].i)
    /\ Adapter(~image_ok /\ run[r].produced = run[r].i - 1)
    /\ UNCHANGED <<maxIter, campaigns, svc>>

\* _execute_collecting_data up to its first describe_image call
StartCollectingData(r) ==
    /\ Executes(r, RUN_COLLECTING_DATA)
    /\ LET job == discovered(r)
           step == steps[job.flow][job.step]
       IN  IF job.step = 0 THEN Fail(r, steps, job, "No step_id provided", 0, 0)
           ELSE IF step.gr = 0 THEN Fail(r, steps, job, "No generation result found", 0, 0)
           ELSE IF step.images = 0 THEN Fail(r, steps, job, "No images found", 0, 0)
           ELSE Await(r, steps, "describe_image", job, 1, 0, step.images)
    /\ UNCHANGED <<maxIter, campaigns, svc, faults>>

\* the commit after the description loop. Every image was created with a
\* list of tags, to which the loop appends in place; metadata_tags is a plain
\* ARRAY column, so whether the session writes the appended tag is up to its
\* change tracking (flushed).
append_description_tags(db, f, i, flushed) ==
    IF ~flushed THEN db
    ELSE [db EXCEPT ![f][i].descriptions =
             IF @ < MaxDescriptions THEN @ + 1 ELSE MaxDescriptions]

\* describe_image has returned for every image (nothing is written between
\* these calls): the session commits and generate_analytics_for_images is called
DescribeImageReturns(r, flushed) ==
    /\ run[r].pc = "describe_image"
    /\ Await(r, append_description_tags(steps, run[r].job.flow, run[r].job.step, flushed),
             "generate_analytics", run[r].job, 0, 0, run[r].nimg)
    /\ UNCHANGED <<maxIter, campaigns, svc, faults>>

\* create_image_metrics on a table without the foreign key and the unique
\* constraint
create_image_metrics_unchecked(db, f, i, image_id) ==
    Ok([db EXCEPT ![f][i].metrics = @ \cup {image_id}])

\* create_image_metrics: image_id is a foreign key and is unique
create_image_metrics(db, f, i, image_id) ==
    IF image_id \notin 1..db[f][i].images \/ image_id \in db[f][i].metrics
    THEN Raise(db, "IntegrityError")
    ELSE Ok([db EXCEPT ![f][i].metrics = @ \cup {image_id}])

RECURSIVE store_metrics(_, _, _, _)
\* the loop over analytics_output.analytics: every row commits, the first
\* exception ends the loop
store_metrics(db, f, i, analytics) ==
    IF analytics = <<>> THEN Ok(db)
    ELSE LET m == create_image_metrics(db, f, i, Head(analytics)) IN
         IF m.err # "none" THEN m ELSE store_metrics(m.db, f, i, Tail(analytics))

\* the lists an analytics reply can hold for n images: one entry for each of
\* some images, and such a list followed by a repeated id or by 0, the id of
\* no image
AnalyticsOutputs(n) ==
    LET some == {SeqOfSet(S) : S \in SUBSET (1..n)}
    IN  some \cup {Append(a, x) : a \in some, x \in {0, 1}}

\* what the OpenAI call of generate_analytics_for_images comes to: a reply
\* with its entries, no API key ("unavailable"), or an API error or a reply
\* that does not parse ("error")
AnalyticsAnswers(n) ==
    {[kind |-> "reply", entries |-> a] : a \in AnalyticsOutputs(n)}
        \cup {[kind |-> k, entries |-> <<>>] : k \in {"unavailable", "error"}}

\* _generate_fallback_analytics: one entry for every image described
generate_fallback_analytics(n) == SeqOfSet(1..n)

\* generate_analytics_for_images: the entries of the reply, or the fallback
generate_analytics_for_images(n, answer) ==
    IF answer.kind = "reply"
    THEN [analytics |-> answer.entries, used_fallback |-> FALSE]
    ELSE [analytics |-> generate_fallback_analytics(n), used_fallback |-> TRUE]

\* generate_analytics_for_images returns: metrics rows, transition_to_analyzing
GenerateAnalyticsReturns(r, answer) ==
    /\ run[r].pc = "generate_analytics"
    /\ LET job == run[r].job
           out == generate_analytics_for_images(run[r].nimg, answer)
           m == store_metrics(steps, job.flow, job.step, out.analytics)
           t == transition_to_analyzing(m.db, job.flow, job.step)
           result(ok, e, db) ==
               [JobResult(job, ok, e, 0, 0, state_of(db, job))
                   EXCEPT !.used_fallback = out.used_fallback /\ run[r].counted,
                          !.next_job = IF ok THEN next_job(db, job) ELSE NoJob]
       IN  /\ IF m.err # "none" THEN Finish(r, m.db, result(FALSE, m.err, m.db))
              ELSE IF t.err # "none" THEN Finish(r, m.db, result(FALSE, t.err, m.db))
              ELSE Finish(r, t.db, result(TRUE, "none", t.db))
           /\ Adapter(out.analytics # SeqOfSet(1..run[r].nimg))
    /\ UNCHANGED <<maxIter, campaigns, svc>>

\* _execute_analyzing up to analyze_winning_images
StartAnalyzing(r) ==
    /\ Executes(r, RUN_ANALYZING)
    /\ LET job == discovered(r) IN
         IF job.step = 0 THEN Fail(r, steps, job, "No step_id provided", 0, 0)
         ELSE IF ~has_generation_result(steps, job.flow, job.step)
         THEN Fail(r, steps, job, "No generation result found", 0, 0)
         ELSE Await(r, steps, "analyze_winning_images", job, 0, 0, 0)
    /\ UNCHANGED <<maxIter, campaigns, svc, faults>>

\* what the OpenAI call of an adapter comes to: a reply, no API key
\* ("unavailable"), or an exception of the call or of the parsing ("error")
AnswerKinds == {"reply", "unavailable", "error"}

\* analyze_winning_images: the analysis of the reply, or FALLBACK_ANALYSIS
analyze_winning_images(kind) == [used_fallback |-> kind # "reply"]

\* analyze_winning_images returns, modify_prompt_from_analysis is called
AnalyzeWinningImagesReturns(r, kind) ==
    /\ run[r].pc = "analyze_winning_images"
    /\ steps' = steps
    /\ res' = NoResult
    /\ run' = [run EXCEPT ![r] =
                 [@ EXCEPT !.pc = "modify_prompt",
                           !.analysis_fallback =
                               analyze_winning_images(kind).used_fallback
                                   /\ run[r].counted]]
    /\ Adapter(kind # "reply")
    /\ UNCHANGED <<maxIter, campaigns, svc>>

\* the modified_prompt a reply of the refinement model can hold: a rewritten
\* prompt, the empty string, or null
ModifiedPrompts == {"refined", "", None}

PromptAnswers ==
    {[kind |-> "reply", modified_prompt |-> t] : t \in ModifiedPrompts}
        \cup {[kind |-> k, modified_prompt |-> None] : k \in AnswerKinds \ {"reply"}}

\* modify_prompt_from_analysis returning the reply's text in every case
modify_prompt_from_analysis_unguarded(current_prompt, answer) ==
    [modified_prompt |-> answer.modified_prompt,
     used_fallback |-> answer.kind # "reply"]

\* modify_prompt_from_analysis: the modified_prompt of the reply, or the
\* current prompt when there is no API key or the call or the parsing raises
modify_prompt_from_analysis(current_prompt, answer) ==
    IF answer.kind = "reply"
    THEN [modified_prompt |-> answer.modified_prompt, used_fallback |-> FALSE]
    ELSE [modified_prompt |-> current_prompt, used_fallback |-> TRUE]

\* the mean embedding RUN_ANALYZING computes for the step of this iteration
mean_embedding(iteration) == iteration

\* modify_prompt_from_analysis returns: create_analysis_result,
\* transition_to_completed
ModifyPromptReturns(r, answer) ==
    /\ run[r].pc = "modify_prompt"
    /\ LET job == run[r].job
           step == steps[job.flow][job.step]
           out == modify_prompt_from_analysis(step.prompt, answer)
           a == create_analysis_result(steps, job.flow, job.step,
                                       mean_embedding(step.iteration),
                                       out.modified_prompt)
           t == transition_to_completed(a.db, job.flow, job.step)
           result(ok, e, db) ==
               [JobResult(job, ok, e, 0, 0, state_of(db, job))
                   EXCEPT !.analysis_fallback = run[r].analysis_fallback,
                          !.prompt_fallback = out.used_fallback /\ run[r].counted,
                          !.next_job = IF ok THEN next_job(db, job) ELSE NoJob]
       IN  /\ IF a.err # "none" THEN Finish(r, steps, result(FALSE, a.err, steps))
              ELSE IF t.err # "none" THEN Finish(r, a.db, result(FALSE, t.err, a.db))
              ELSE Finish(r, t.db, result(TRUE, "none", t.db))
           /\ Adapter(answer # [kind |-> "reply", modified_prompt |-> "refined"]
                        /\ ~run[r].analysis_fallback)
    /\ UNCHANGED <<maxIter, campaigns, svc>>

\* ------------------------------------------------- discovery endpoints
\* a discovery scan that creates the missing first steps, as run_once does
\* before its loop
discovery_effect_creating(db) == ensure_first_steps_created(db)

\* what the queries of a discovery scan leave in the store: get_campaigns,
\* get_flows_by_campaign, get_latest_step and get_generation_result_by_step
\* are SELECTs, no row is written
discovery_effect(db) == db

\* "next_job" without the word for a flow that has no job
next_job_value_of_job(job) == job.type

\* "next_job": job.job_type.value if job else "complete"
next_job_value(job) == IF job = NoJob THEN "complete" ELSE job.type

\* FlowOrchestrator.get_campaign_status(campaign_id)
get_campaign_status(db, c) ==
    IF c \notin campaigns THEN [NoStatus EXCEPT !.error = "Campaign not found"]
    ELSE LET flows == get_flows_by_campaign(c) IN
         [error |-> "none",
          total_flows |-> Len(flows),
          pending_jobs |-> Len(get_all_pending_jobs(db, c)),
          flows |-> [i \in 1..Len(flows) |->
                       LET latest_step == get_latest_step(db, flows[i]) IN
                       [flow_id |-> flows[i],
                        current_iteration |-> IF latest_step = 0 THEN 0 - 1
                                              ELSE db[flows[i]][latest_step].iteration,
                        current_state |-> IF latest_step = 0 THEN None
                                          ELSE db[flows[i]][latest_step].state,
                        next_job |-> next_job_value(get_job_for_flow(db, flows[i]))]]]

\* CampaignRepository.get_steps_by_flow: ORDER BY iteration
get_steps_by_flow(db, f) ==
    [k \in 1..Len(db[f]) |->
        db[f][CHOOSE i \in 1..Len(db[f]) :
                 Cardinality({j \in 1..Len(db[f]) :
                                 db[f][j].iteration < db[f][i].iteration}) = k - 1]]

\* FlowOrchestrator.get_flow_status(flow_id); a flow exists with its campaign
get_flow_status(db, f) ==
    IF FlowCampaign(f) \notin campaigns
    THEN [error |-> "Flow not found", next_job |-> None, steps |-> <<>>]
    ELSE LET rows == get_steps_by_flow(db, f) IN
         [error |-> "none",
          next_job |-> next_job_value(get_job_for_flow(db, f)),
          steps |-> [k \in 1..Len(rows) |->
                       [iteration |-> rows[k].iteration, state |-> rows[k].state,
                        has_generation_result |-> rows[k].gr > 0,
                        has_analysis_result |-> rows[k].ar > 0,
                        image_count |-> rows[k].images]]]

\* a discovery call from outside a pass (GET /jobs/pending, the status
\* endpoints, a client of the orchestrator): get_next_job and
\* get_all_pending_jobs of scope c (0: every campaign) on the same store.
\* poll.again: the step before was a discovery call of the same scope.
Discover(c) ==
    /\ steps' = discovery_effect(steps)
    /\ poll' = [scope |-> c, next |-> get_next_job(steps, c),
                jobs |-> get_all_pending_jobs(steps, c),
                again |-> poll.scope = c]
    /\ res' = NoResult
    /\ UNCHANGED <<maxIter, campaigns, run, svc, faults, creation, fn>>

\* ------------------------------------------- direct calls of the service
\* the state of step i of flow f, "none" without such a row
state_at(db, f, i) == IF step_exists(db, f, i) THEN db[f][i].state ELSE "none"

\* what a caller of a CampaignService method sees: the exception, the states
\* it carries, and the step's persisted state before and after the call
Call(op, f, i, out) ==
    [op |-> op, flow |-> f, step |-> i, before |-> state_at(steps, f, i),
     err |-> out.err, cur |-> out.cur, tgt |-> out.tgt,
     after |-> state_at(out.db, f, i), same |-> out.db = steps]

\* a call returns (or raises): every write it made is committed
Returns(op, f, i, out) ==
    /\ steps' = out.db
    /\ svc' = Call(op, f, i, out)
    /\ UNCHANGED <<maxIter, campaigns, run, res, poll, faults, creation, fn>>

\* CampaignService.create_step, called for an existing flow
SvcCreateStep(f) ==
    /\ FlowCampaign(f) \in campaigns
    /\ Len(steps[f]) < MaxSvcSteps
    /\ Returns("create_step", f, Len(steps[f]) + 1,
               Ok(create_step(steps, f, NoEmbedding, None)))

\* CampaignService.create_generation_result for step i
SvcCreateGenerationResult(f, i) ==
    /\ step_exists(steps, f, i)
    /\ Returns("create_generation_result", f, i,
               create_generation_result(steps, f, i, prompt_to_use(steps[f][i])))

\* CampaignService.create_analysis_result for step i
SvcCreateAnalysisResult(f, i) ==
    /\ step_exists(steps, f, i)
    /\ Returns("create_analysis_result", f, i,
               create_analysis_result(steps, f, i, mean_embedding(steps[f][i].iteration),
                                      "refined"))

\* CampaignService.transition_to_collecting for step id i, existing or not
SvcTransitionToCollecting(f, i) ==
    Returns("transition_to_collecting", f, i, transition_to_collecting(steps, f, i))

\* CampaignService.transition_to_analyzing
SvcTransitionToAnalyzing(f, i) ==
    Returns("transition_to_analyzing", f, i, transition_to_analyzing(steps, f, i))

\* CampaignService.transition_to_completed
SvcTransitionToCompleted(f, i) ==
    Returns("transition_to_completed", f, i, transition_to_completed(steps, f, i))

\* ------------------------------------------------- winner selection
\* no function call
NoFn == [op |-> "none"]

Min(a, b) == IF a <= b THEN a ELSE b

\* xs[:k] and xs[k:] for k >= 0
Take(xs, k) == SubSeq(xs, 1, Min(k, Len(xs)))
Drop(xs, k) == SubSeq(xs, Min(k, Len(xs)) + 1, Len(xs))

Ids(xs) == [i \in 1..Len(xs) |-> xs[i].id]

\* an insertion that puts x before the entries of its score
insert_by_score_before_equal(sorted, x) ==
    LET k == Cardinality({i \in 1..Len(sorted) : sorted[i].score > x.score})
    IN  SubSeq(sorted, 1, k) \o <<x>> \o SubSeq(sorted, k + 1, Len(sorted))

\* list.sort(key=score, reverse=True): stable, x goes behind the entries
\* whose score is not lower
insert_by_score(sorted, x) ==
    LET k == Cardinality({i \in 1..Len(sorted) : sorted[i].score >= x.score})
    IN  SubSeq(sorted, 1, k) \o <<x>> \o SubSeq(sorted, k + 1, Len(sorted))

RECURSIVE sort_by_score(_)
sort_by_score(xs) ==
    IF xs = <<>> THEN <<>>
    ELSE insert_by_score(sort_by_score(SubSeq(xs, 1, Len(xs) - 1)), xs[Len(xs)])

\* select_top_images_by_score(image_analytics, top_n); an entry is an image
\* id with its composite score
select_top_images_by_score(image_analytics, top_n) ==
    LET scored_images == sort_by_score(image_analytics)
    IN  [top |-> Ids(Take(scored_images, top_n)),
         bottom |-> Ids(Drop(scored_images, top_n))]

\* steps.select_top_images.select_top_images on valid AnalyticsData
select_top_images(analytics_list, top_n) ==
    Take(sort_by_score(analytics_list), top_n)

\* the items analyze_image_differences is handed: an AnalyticsData or an
\* ImageData with analytics ("analytics", with the composite score), an
\* ImageData without analytics, an object of another type
ItemKinds == {"analytics", "no_analytics", "other"}

\* the AnalyticsData of the items in input order; the id of an item is its
\* position
analytics_of(items) == [i \in 1..Len(items) |-> [id |-> i, score |-> items[i].score]]

\* the last item the extraction loop would refuse (0: none)
last_refused(items) ==
    LET bad == {i \in 1..Len(items) : items[i].kind # "analytics"}
    IN  IF bad = {} THEN 0 ELSE CHOOSE i \in bad : \A j \in bad : i >= j

\* the first item the extraction loop refuses (0: none)
first_refused(items) ==
    LET bad == {i \in 1..Len(items) : items[i].kind # "analytics"}
    IN  IF bad = {} THEN 0 ELSE CHOOSE i \in bad : \A j \in bad : i <= j

\* what the OpenAI call of analyze_image_differences comes to
AnalysisAnswers == {"reply", "unavailable", "RateLimitError", "APIConnectionError",
                    "APIError", "JSONDecodeError"}

FALLBACK_ANALYSIS ==
    [differentiation_text |-> "Analysis could not be generated",
     differentiation_tags |-> <<"analysis_unavailable">>]

\* the result of a call that raises exc
Raised(exc, selected, api_called) ==
    [raised |-> exc, selected |-> selected, api_called |-> api_called,
     differentiation_text |-> "none", differentiation_tags |-> <<>>,
     top_image_ids |-> <<>>, bottom_image_ids |-> <<>>]

\* analyze_image_differences letting a reply that does not parse raise
analyze_image_differences_raising(items, top_n, answer) ==
    LET analytics_list == analytics_of(items)
        top_analytics == select_top_images(analytics_list, top_n)
        top_ids == {top_analytics[i].id : i \in 1..Len(top_analytics)}
        bottom_analytics == SelectSeq(analytics_list, LAMBDA a : a.id \notin top_ids)
        analysis == IF answer = "reply"
                    THEN [differentiation_text |-> "analysis",
                          differentiation_tags |-> <<"tag">>]
                    ELSE FALLBACK_ANALYSIS
    IN  IF first_refused(items) # 0
        THEN IF items[first_refused(items)].kind = "no_analytics"
             THEN Raised("ValueError: no analytics data", FALSE, FALSE)
             ELSE Raised("TypeError", FALSE, FALSE)
        ELSE IF Len(analytics_list) < top_n + 1
             THEN Raised("ValueError: Not enough images to compare", FALSE, FALSE)
        ELSE IF answer = "JSONDecodeError" THEN Raised(answer, TRUE, TRUE)
        ELSE [raised |-> "none", selected |-> TRUE,
              api_called |-> answer # "unavailable",
              differentiation_text |-> analysis.differentiation_text,
              differentiation_tags |-> analysis.differentiation_tags,
              top_image_ids |-> Ids(top_analytics),
              bottom_image_ids |-> Ids(bottom_analytics)]

\* analyze_image_differences(analytics_data, top_n): the extraction loop, the
\* length check, select_top_images, the non-selected items in input order,
\* then the OpenAI call or the fallback analysis
analyze_image_differences(items, top_n, answer) ==
    LET analytics_list == analytics_of(items)
        top_analytics == select_top_images(analytics_list, top_n)
        top_ids == {top_analytics[i].id : i \in 1..Len(top_analytics)}
        bottom_analytics == SelectSeq(analytics_list, LAMBDA a : a.id \notin top_ids)
        analysis == IF answer = "reply"
                    THEN [differentiation_text |-> "analysis",
                          differentiation_tags |-> <<"tag">>]
                    ELSE FALLBACK_ANALYSIS
    IN  IF first_refused(items) # 0
        THEN IF items[first_refused(items)].kind = "no_analytics"
             THEN Raised("ValueError: no analytics data", FALSE, FALSE)
             ELSE Raised("TypeError", FALSE, FALSE)
        ELSE IF Len(analytics_list) < top_n + 1
             THEN Raised("ValueError: Not enough images to compare", FALSE, FALSE)
        ELSE [raised |-> "none", selected |-> TRUE,
              api_called |-> answer # "unavailable",
              differentiation_text |-> analysis.differentiation_text,
              differentiation_tags |-> analysis.differentiation_tags,
              top_image_ids |-> Ids(top_analytics),
              bottom_image_ids |-> Ids(bottom_analytics)]

\* ------------------------------------------------- asset-pool narrowing
\* an asset of the pool: its asset_type, whether it carries an embedding of
\* the target's dimension, and its cosine similarity to the embedding its
\* type is compared with; the id of an asset is its position in the pool
AssetTypes == {"background", "product"}
\* a lower and a higher cosine similarity
Similarities == {0, 1}

\* filter_assets_by_similarity(SimilarityInput(target, assets, 1/(k+1))):
\* assets without a usable embedding are skipped, the rest is sorted by
\* score and cut to max(1, int(len * top_fraction))
filter_assets_by_similarity(assets, k) ==
    LET scored_assets == sort_by_score(SelectSeq(assets, LAMBDA a : a.embedded))
        num_to_keep == IF Len(scored_assets) \div (k + 1) >= 1
                       THEN Len(scored_assets) \div (k + 1) ELSE 1
    IN  Take(scored_assets, num_to_keep)

RECURSIVE type_order(_)
\* the keys of assets_by_type in insertion order
type_order(assets) ==
    IF assets = <<>> THEN <<>>
    ELSE LET before == type_order(SubSeq(assets, 1, Len(assets) - 1))
             t == assets[Len(assets)].type
         IN  IF \E i \in 1..Len(before) : before[i] = t THEN before
             ELSE Append(before, t)

RECURSIVE filter_each_type(_, _, _)
\* the loop over assets_by_type.items()
filter_each_type(types, assets, k) ==
    IF types = <<>> THEN <<>>
    ELSE filter_assets_by_similarity(
             SelectSeq(assets, LAMBDA a : a.type = Head(types)), k)
         \o filter_each_type(Tail(types), assets, k)

\* filter_assets_by_iteration(target_embedding, assets, iteration)
filter_assets_by_iteration(assets, iteration) ==
    IF iteration = 0 THEN assets
    ELSE filter_each_type(type_order(assets), assets, iteration)

\* ---------------------------------------------------- asset selection
\* group_assets_by_type: the ids of the assets of each type in the pool
group_assets_by_type(assets) ==
    [t \in {assets[i].type : i \in DOMAIN assets} |->
        {assets[i].id : i \in {j \in DOMAIN assets : assets[j].type = t}}]

\* the assets random.choice draws from when nothing is held back
available_of_all(assets_by_type, used_ids_per_type, t) == assets_by_type[t]

\* the assets random.choice draws from: those of the type not yet used, all
\* of the type once every one of them has been used
available(assets_by_type, used_ids_per_type, t) ==
    LET fresh == assets_by_type[t] \ used_ids_per_type[t]
    IN  IF fresh = {} THEN assets_by_type[t] ELSE fresh

\* used_ids_per_type after a set was selected: cleared for a type whose
\* assets were all used, then the chosen asset is added
used_after(assets_by_type, used_ids_per_type, selected) ==
    [t \in DOMAIN assets_by_type |->
        (IF assets_by_type[t] \ used_ids_per_type[t] = {} THEN {}
         ELSE used_ids_per_type[t]) \cup {selected[t]}]

RECURSIVE select_sets(_, _, _)
\* the loop over range(num_sets): the lists of sets it can build, each set
\* one random choice per type
select_sets(assets_by_type, used_ids_per_type, num_sets) ==
    IF num_sets <= 0 THEN {<<>>}
    ELSE UNION {
           {<<selected>> \o rest :
               rest \in select_sets(assets_by_type,
                                    used_after(assets_by_type, used_ids_per_type, selected),
                                    num_sets - 1)} :
           selected \in {sel \in [DOMAIN assets_by_type ->
                                       UNION {assets_by_type[t] : t \in DOMAIN assets_by_type}] :
                            \A t \in DOMAIN assets_by_type :
                                sel[t] \in available(assets_by_type, used_ids_per_type, t)}}

\* select_asset_sets(AssetSelectionInput(assets, num_sets, used_asset_ids)):
\* the outputs it can return
select_asset_sets(assets, num_sets, used_asset_ids) ==
    LET assets_by_type == group_assets_by_type(assets)
    IN  IF DOMAIN assets_by_type = {}
        THEN {[asset_sets |-> <<>>, assets_by_type |-> assets_by_type]}
        ELSE {[asset_sets |-> sets, assets_by_type |-> assets_by_type] :
                 sets \in select_sets(assets_by_type,
                                      [t \in DOMAIN assets_by_type |->
                                          assets_by_type[t] \cap used_asset_ids],
                                      num_sets)}

\* ---------------------------------------------------- image generation
\* _poll_flux_result(timeout=120.0, interval=2), client.get(timeout=60.0);
\* times are in seconds
poll_timeout == 120
poll_interval == 2
get_timeout == 60

\* the latest time a poll can end at: the last sleep starts at poll_timeout
\* and the GET after it takes get_timeout
ClockEnd == poll_timeout + poll_interval + get_timeout

\* how long a request to the service can take
GetDurations == {0, 1, get_timeout}

\* what a GET of the polling url gives: a JSON object with a status (None:
\* without one), a body that is no JSON object, or an httpx exception
PollStatuses == {"Ready", "Failed", "Error", "Pending", None}
PollAnswers == PollStatuses \cup {"no json", "httpx error"}

\* ImageGenerationResult(success, error)
ImageGenerationResult(success, error) == [success |-> success, error |-> error]

\* a call of generate_image_with_flux that has not returned; api_key: whether
\* BFL_API_KEY is set; poll: how _poll_flux_result ended; elapsed: the time
\* since it started
FluxCall(api_key) ==
    [op |-> "generate_image_with_flux", api_key |-> api_key, pc |-> "start",
     elapsed |-> 0, status |-> "none", poll |-> "none",
     returned |-> FALSE, out |-> <<>>]

\* generate_image_with_flux returns its result
FluxReturns(call, success, error) ==
    [call EXCEPT !.pc = "done", !.returned = TRUE,
                 !.out = ImageGenerationResult(success, error)]

\* the loop never gives up
timed_out_never(elapsed) == FALSE

\* (loop.time() - start) > timeout
timed_out(elapsed) == elapsed > poll_timeout

\* one turn of the loop of _poll_flux_result after its GET has ended at
\* time elapsed with the answer; its exceptions end generate_image_with_flux
\* in one of its two except clauses
poll_flux_result(call, elapsed, answer) ==
    LET polled == [call EXCEPT !.elapsed = elapsed, !.status = answer] IN
    IF answer \in {"no json", "httpx error"}
    THEN FluxReturns([polled EXCEPT !.poll = "Exception"], FALSE, "Unexpected error")
    ELSE IF answer = "Ready"
    THEN [polled EXCEPT !.poll = "returned", !.pc = "download"]
    ELSE IF answer \in {"Failed", "Error"}
    THEN FluxReturns([polled EXCEPT !.poll = "FluxGenerationError"], FALSE,
                     "FLUX.2 job failed")
    ELSE IF timed_out(elapsed)
    THEN FluxReturns([polled EXCEPT !.poll = "FluxGenerationError"], FALSE,
                     "Polling timed out before result was ready.")
    ELSE [polled EXCEPT !.pc = "sleep"]

FluxStep(next) ==
    /\ fn.op = "generate_image_with_flux"
    /\ fn' = next
    /\ UNCHANGED <<maxIter, campaigns, steps, run, res, poll, svc, faults, creation>>

\* generate_image_with_flux up to its first request: the key, the base asset
FluxStarts(encoded) ==
    /\ fn.pc = "start"
    /\ FluxStep(IF ~fn.api_key THEN FluxReturns(fn, FALSE, "BFL_API_KEY not set")
                ELSE IF ~encoded THEN FluxReturns(fn, FALSE, "Failed to encode base asset")
                ELSE [fn EXCEPT !.pc = "call_flux_edit"])

\* _call_flux_edit has returned the initial response, with a polling_url or
\* without one, or has raised
CallFluxEditReturns(answer) ==
    /\ fn.pc = "call_flux_edit"
    /\ FluxStep(CASE answer = "polling_url" -> [fn EXCEPT !.pc = "poll"]
                  [] answer = "no polling_url" ->
                        FluxReturns(fn, FALSE, "No polling_url in FLUX.2 response")
                  [] answer = "FluxGenerationError" ->
                        FluxReturns(fn, FALSE, "FLUX.2 edit request failed")
                  [] OTHER -> FluxReturns(fn, FALSE, "Unexpected error"))

\* the GET of the polling url has ended after d seconds
PollGetReturns(d, answer) ==
    /\ fn.pc = "poll"
    /\ FluxStep(poll_flux_result(fn, Min(fn.elapsed + d, ClockEnd), answer))

\* asyncio.sleep(interval) has returned: the next GET is sent
PollSleepReturns ==
    /\ fn.pc = "sleep"
    /\ FluxStep([fn EXCEPT !.pc = "poll",
                           !.elapsed = Min(fn.elapsed + poll_interval, ClockEnd)])

\* _download_and_save_image has returned a path or None
DownloadReturns(saved) ==
    /\ fn.pc = "download"
    /\ FluxStep(IF saved THEN FluxReturns(fn, TRUE, None)
                ELSE FluxReturns(fn, FALSE, "Failed to download image"))

\* ------------------------------------------------- calls of the functions
RECURSIVE SeqsUpTo(_, _)
\* the sequences over S of length 0..n
SeqsUpTo(S, n) ==
    IF n = 0 THEN {<<>>}
    ELSE LET shorter == SeqsUpTo(S, n - 1)
         IN  shorter \cup {Append(x, e) : x \in {y \in shorter : Len(y) = n - 1}, e \in S}

Scores == 0..MaxScore

\* a sequence of entries numbered by their position
Numbered(xs) == [i \in 1..Len(xs) |-> [xs[i] EXCEPT !.id = i]]

ScoredImages ==
    {Numbered(xs) : xs \in SeqsUpTo([id : {0}, score : Scores], MaxImages)}

Items ==
    SeqsUpTo([kind : {"analytics"}, score : Scores]
                 \cup [kind : ItemKinds \ {"analytics"}, score : {0}], MaxImages)

Pools ==
    {Numbered(xs) :
        xs \in SeqsUpTo([id : {0}, type : AssetTypes, embedded : BOOLEAN,
                         score : Similarities], MaxAssets)}

\* pools for the asset selection, which reads the type and the id only
TypedPools ==
    {Numbered(xs) :
        xs \in SeqsUpTo([id : {0}, type : AssetTypes, embedded : {TRUE}, score : {0}],
                        MaxAssets)}

\* a call that has not returned yet
Pending(op, items, n, answer) ==
    [op |-> op, items |-> items, n |-> n, answer |-> answer,
     returned |-> FALSE, out |-> <<>>]

FunctionCalls ==
    {Pending("select_top_images_by_score", xs, top_n, "none") :
        xs \in ScoredImages, top_n \in 0..MaxTopN}
    \cup {Pending("analyze_image_differences", xs, top_n, answer) :
        xs \in Items, top_n \in 1..MaxTopN, answer \in AnalysisAnswers}
    \cup {Pending("filter_assets_by_iteration", xs, iteration, "none") :
        xs \in Pools, iteration \in 0..MaxIterations}
    \cup {Pending("select_asset_sets", xs, num_sets, used_asset_ids) :
        xs \in TypedPools, num_sets \in 0..MaxSets,
        used_asset_ids \in SUBSET (1..MaxAssets)}

\* the call returns or raises
FunctionReturns(out) ==
    /\ ~fn.returned
    /\ fn' = [fn EXCEPT !.returned = TRUE, !.out = out]
    /\ UNCHANGED <<maxIter, campaigns, steps, run, res, poll, svc, faults, creation>>

SelectTopImagesByScore ==
    /\ fn.op = "select_top_images_by_score"
    /\ FunctionReturns(select_top_images_by_score(fn.items, fn.n))

AnalyzeImageDifferences ==
    /\ fn.op = "analyze_image_differences"
    /\ FunctionReturns(analyze_image_differences(fn.items, fn.n, fn.answer))

FilterAssetsByIteration ==
    /\ fn.op = "filter_assets_by_iteration"
    /\ FunctionReturns(filter_assets_by_iteration(fn.items, fn.n))

\* select_asset_sets returns one of the outputs its random choices allow
SelectAssetSets ==
    /\ fn.op = "select_asset_sets"
    /\ \E out \in select_asset_sets(fn.items, fn.n, fn.answer) : FunctionReturns(out)

\* GET /campaigns/{campaign_id}/status on the persisted state
GetCampaignStatus(c) ==
    /\ fn = NoFn
    /\ fn' = [op |-> "get_campaign_status", n |-> c, returned |-> TRUE,
              out |-> get_campaign_status(steps, c)]
    /\ UNCHANGED <<maxIter, campaigns, steps, run, res, poll, svc, faults, creation>>

\* GET /flows/{flow_id}/status on the persisted state
GetFlowStatus(f) ==
    /\ fn = NoFn
    /\ fn' = [op |-> "get_flow_status", n |-> f, returned |-> TRUE,
              out |-> get_flow_status(steps, f)]
    /\ UNCHANGED <<maxIter, campaigns, steps, run, res, poll, svc, faults, creation>>

\* ---------------------------------------------------- specification
\* the state after start-up: the campaign specs ss exist with some
\* max_iterations, no campaign has been created, the tasks rs are idle
InitWith(ss, rs) ==
    /\ maxIter \in [ss -> 0..MaxIterations]
    /\ campaigns = {}
    /\ steps = [f \in Flows |-> <<>>]
    /\ run = [r \in rs |-> Idle]
    /\ res = NoResult
    /\ poll = NoPoll
    /\ svc = NoCall
    /\ faults = 0
    /\ creation = Created({})
    /\ fn = NoFn

\* the steps of execute_job from the job handed over to its JobResult, the refinement
\* model answering from prompt_answers, the session writing the appended
\* description tags or not as flushes says
ExecuteJobWith(prompt_answers, flushes) ==
    \/ \E r \in DOMAIN run : ExecuteCreateFirstStep(r)
    \/ \E r \in DOMAIN run : ExecuteCreateNextIteration(r)
    \/ \E r \in DOMAIN run, pool_empty \in BOOLEAN : StartGenerating(r, pool_empty)
    \/ \E r \in DOMAIN run, image_ok \in BOOLEAN : GenerateImageReturns(r, image_ok)
    \/ \E r \in DOMAIN run : StartCollectingData(r)
    \/ \E r \in DOMAIN run, flushed \in flushes : DescribeImageReturns(r, flushed)
    \/ \E r \in DOMAIN run : \E answer \in AnalyticsAnswers(run[r].nimg) :
          GenerateAnalyticsReturns(r, answer)
    \/ \E r \in DOMAIN run : StartAnalyzing(r)
    \/ \E r \in DOMAIN run, kind \in AnswerKinds : AnalyzeWinningImagesReturns(r, kind)
    \/ \E r \in DOMAIN run, answer \in prompt_answers : ModifyPromptReturns(r, answer)

\* the steps of a pass: its loop ends, or the job it discovered goes on
JobStepWith(prompt_answers, flushes) ==
    \/ \E r \in DOMAIN run : PassEnds(r)
    \/ ExecuteJobWith(prompt_answers, flushes)

\* the steps of a job with every answer of the refinement model; the tags
\* appended in place are not written
JobStep == JobStepWith(PromptAnswers, {FALSE})

\* the steps of a job with every answer of the refinement model, the
\* description tags followed
JobStepWithTags == JobStepWith(PromptAnswers, BOOLEAN)

\* the answers of the refinement model that decide how the job ends: a
\* rewritten prompt, and null, which create_analysis_result refuses
DecidingPromptAnswers ==
    {[kind |-> "reply", modified_prompt |-> t] : t \in {"refined", None}}

\* one campaign spec; a run_once pass and a campaign run interleave at the
\* adapter awaits; the max_jobs of a pass is left open; the refinement model
\* answers from DecidingPromptAnswers (the text it returns is followed by
\* SpecPasses and SpecTicks)
Init == InitWith({1}, Runners)

Next ==
    \/ \E s \in Specs : CreateCampaign(s) /\ UNCHANGED <<poll, fn>>
    \/ \E r \in DOMAIN run : StartRunOnce(r, FALSE) /\ UNCHANGED <<poll, creation, fn>>
    \/ \E r \in DOMAIN run, c \in Specs : StartCampaignRun(r, c, FALSE) /\ UNCHANGED <<poll, creation, fn>>
    \/ JobStepWith(DecidingPromptAnswers, {FALSE}) /\ UNCHANGED <<poll, creation, fn>>

Spec == Init /\ [][Next]_vars

\* one campaign spec; passes of max_jobs = MaxJobsPerRun that run one after
\* the other (a pass starts when no other is running)
NoPassRunning == \A r \in DOMAIN run : run[r].pc = "idle"

NextPasses ==
    \/ \E s \in Specs : CreateCampaign(s) /\ UNCHANGED <<poll, fn>>
    \/ \E r \in DOMAIN run : NoPassRunning /\ StartRunOnce(r, TRUE) /\ UNCHANGED <<poll, creation, fn>>
    \/ \E r \in DOMAIN run, c \in Specs :
          NoPassRunning /\ StartCampaignRun(r, c, TRUE) /\ UNCHANGED <<poll, creation, fn>>
    \/ JobStepWithTags /\ UNCHANGED <<poll, creation, fn>>

SpecPasses == Init /\ [][NextPasses]_vars

\* the scheduler loop on two campaigns that exist from the start, each with
\* max_iterations >= 1: run_scheduler_loop calls tick, which is run_once, and
\* sleeps, for ever; a pass starts when the one before has returned
TickSpecs == {1, 2}

InitTicks ==
    /\ maxIter \in [TickSpecs -> 1..MaxIterations]
    /\ campaigns = TickSpecs
    /\ steps = [f \in Flows |-> <<>>]
    /\ run = [r \in {RUN_ONCE} |-> Idle]
    /\ res = NoResult
    /\ poll = NoPoll
    /\ svc = NoCall
    /\ faults = 0
    /\ creation = Created(TickSpecs)
    /\ fn = NoFn

\* tick: the next pass starts
Tick == NoPassRunning /\ StartRunOnce(RUN_ONCE, TRUE) /\ UNCHANGED <<poll, creation, fn>>

NextTicks ==
    \/ Tick
    \/ JobStep /\ UNCHANGED <<poll, creation, fn>>

\* the loop never stops ticking: after a pass has returned the next one starts
SpecTicks == InitTicks /\ [][NextTicks]_vars /\ WF_vars(Tick)

\* every pass returns: the adapter calls it awaits come back
PassesReturn == []<>NoPassRunning

\* the functions called on their own, each on any input within the bounds
InitFunctions ==
    /\ maxIter = [s \in {} |-> 0]
    /\ campaigns = {}
    /\ steps = [f \in Flows |-> <<>>]
    /\ run = [r \in {} |-> Idle]
    /\ res = NoResult
    /\ poll = NoPoll
    /\ svc = NoCall
    /\ faults = 0
    /\ creation = Created({})
    /\ fn \in FunctionCalls

NextFunctions ==
    \/ SelectTopImagesByScore
    \/ AnalyzeImageDifferences
    \/ FilterAssetsByIteration
    \/ SelectAssetSets

SpecFunctions == InitFunctions /\ [][NextFunctions]_vars

\* the stores a flow with max_iterations m can have, as far as discovery
\* reads them: completed steps, then a step in any state
StepIn(it, st) ==
    [iteration |-> it, state |-> st,
     input_embedding |-> IF it = 0 THEN NoEmbedding ELSE it - 1,
     input_insights |-> IF it = 0 THEN None ELSE "refined",
     gr |-> (IF st # GENERATING THEN 1 ELSE 0),
     prompt |-> IF st = GENERATING THEN None
                ELSE IF it = 0 THEN initial_prompt ELSE "refined",
     images |-> IF st = GENERATING THEN 0 ELSE 1,
     descriptions |-> 0,
     metrics |-> IF st \in {ANALYZING, COMPLETED} THEN {1} ELSE {},
     ar |-> (IF st = COMPLETED THEN 1 ELSE 0),
     qualitative_diff |-> IF st = COMPLETED THEN "refined" ELSE None,
     output_embedding |-> IF st = COMPLETED THEN it ELSE NoEmbedding]

StoredFlows(m) ==
    {<<>>} \cup
    {[k \in 1..n |-> IF k < n THEN StepIn(k - 1, COMPLETED) ELSE StepIn(k - 1, st)] :
        n \in 1..Max({1, m}), st \in FlowStepState}

RECURSIVE Stores(_, _, _)
\* the stores of the flows 1..n: a flow of a campaign in cs has a store its
\* max_iterations allows, a flow without campaign has no rows
Stores(n, cs, mi) ==
    IF n = 0 THEN {<<>>}
    ELSE {Append(s, x) : s \in Stores(n - 1, cs, mi),
                         x \in IF FlowCampaign(n) \in cs
                               THEN StoredFlows(mi[FlowCampaign(n)]) ELSE {<<>>}}

\* job discovery as a function of the store: any campaigns, each flow with
\* any store it can have, and discovery calls of any scope
InitDiscovery ==
    /\ campaigns \in SUBSET Specs
    /\ maxIter \in [campaigns -> 0..MaxIterations]
    /\ steps \in Stores(NumSpecs, campaigns, maxIter)
    /\ run = [r \in {} |-> Idle]
    /\ res = NoResult
    /\ poll = NoPoll
    /\ svc = NoCall
    /\ faults = 0
    /\ creation = Created(campaigns)
    /\ fn = NoFn

NextDiscovery == \E c \in {0} \cup Specs : Discover(c)

SpecDiscovery == InitDiscovery /\ [][NextDiscovery]_vars

\* a caller of execute_job on the flows of one or two campaigns, each with
\* any store it can have: the jobs it hands over are of any type, for any
\* step of a flow or none
BuiltJobs ==
    {Job(t.type, f, k, t.priority) :
        f \in Flows,
        t \in {[type |-> CREATE_FIRST_STEP, priority |-> 0],
                [type |-> RUN_GENERATING, priority |-> 1],
                [type |-> RUN_COLLECTING_DATA, priority |-> 2],
                [type |-> RUN_ANALYZING, priority |-> 3],
                [type |-> CREATE_NEXT_ITERATION, priority |-> 0]},
        k \in 0..MaxIterations}

InitExecute ==
    /\ campaigns \in {{1}, {1, 2}}
    /\ maxIter \in [campaigns -> 1..MaxIterations]
    /\ steps \in Stores(NumSpecs, campaigns, maxIter)
    /\ run = [r \in {EXECUTE_JOB} |-> Idle]
    /\ res = NoResult
    /\ poll = NoPoll
    /\ svc = NoCall
    /\ faults = 0
    /\ creation = Created(campaigns)
    /\ fn = NoFn

NextExecute ==
    \/ \E r \in DOMAIN run, job \in BuiltJobs :
          CallExecuteJob(r, job) /\ UNCHANGED <<poll, creation, fn>>
    \/ ExecuteJobWith(PromptAnswers, BOOLEAN) /\ UNCHANGED <<poll, creation, fn>>

SpecExecute == InitExecute /\ [][NextExecute]_vars

\* one call of generate_image_with_flux, with the service answering each
\* request in any way and after any time within the client's timeout. The
\* coroutine is run by the event loop: a request it awaits ends (the client
\* has a timeout) and a sleep it awaits returns.
InitFlux ==
    /\ maxIter = [s \in {} |-> 0]
    /\ campaigns = {}
    /\ steps = [f \in Flows |-> <<>>]
    /\ run = [r \in {} |-> Idle]
    /\ res = NoResult
    /\ poll = NoPoll
    /\ svc = NoCall
    /\ faults = 0
    /\ creation = Created({})
    /\ fn \in {FluxCall(api_key) : api_key \in BOOLEAN}

NextFlux ==
    \/ \E encoded \in BOOLEAN : FluxStarts(encoded)
    \/ \E answer \in {"polling_url", "no polling_url", "FluxGenerationError", "Exception"} :
          CallFluxEditReturns(answer)
    \/ \E d \in GetDurations, answer \in PollAnswers : PollGetReturns(d, answer)
    \/ PollSleepReturns
    \/ \E saved \in BOOLEAN : DownloadReturns(saved)

SpecFlux == InitFlux /\ [][NextFlux]_vars /\ WF_vars(NextFlux)

\* run_once passes over two campaigns whose flows have any store they can
\* have, the spec row of either campaign being there or not (no foreign key
\* is enforced on a database other than PostgreSQL, and DELETE
\* /campaign-specs/{id} does not look for campaigns). The event loop runs
\* the pass: each of its steps is taken in the end.
InitLoop ==
    \E full \in [TickSpecs -> 1..MaxIterations], loaded \in SUBSET TickSpecs :
        /\ maxIter = [s \in loaded |-> full[s]]
        /\ campaigns = TickSpecs
        /\ steps \in Stores(NumSpecs, TickSpecs, full)
        /\ run = [r \in {RUN_ONCE} |-> Idle]
        /\ res = NoResult
        /\ poll = NoPoll
        /\ svc = NoCall
        /\ faults = 0
        /\ creation = Created(TickSpecs)
        /\ fn = NoFn

LoopStep ==
    \/ LoopContinues(RUN_ONCE) /\ UNCHANGED <<poll, creation, fn>>
    \/ JobStep /\ UNCHANGED <<poll, creation, fn>>

NextLoop ==
    \/ Tick
    \/ LoopStep

SpecLoop == InitLoop /\ [][NextLoop]_vars /\ WF_vars(LoopStep)

\* the status endpoints as functions of the store: any campaigns, each flow
\* with any store it can have, and one status request
NextStatus ==
    \/ \E c \in Specs : GetCampaignStatus(c)
    \/ \E f \in Flows : GetFlowStatus(f)

SpecStatus == InitDiscovery /\ [][NextStatus]_vars

\* a client that calls the CampaignService methods directly, in any order,
\* on the flow of one campaign; no pass runs
InitService == InitWith({1}, {})

NextService ==
    \/ \E s \in Specs : CreateCampaign(s) /\ UNCHANGED <<poll, fn>>
    \/ \E f \in Flows : SvcCreateStep(f)
    \/ \E f \in Flows, i \in 1..MaxSvcSteps : SvcCreateGenerationResult(f, i)
    \/ \E f \in Flows, i \in 1..MaxSvcSteps : SvcCreateAnalysisResult(f, i)
    \/ \E f \in Flows, i \in 1..MaxSvcSteps : SvcTransitionToCollecting(f, i)
    \/ \E f \in Flows, i \in 1..MaxSvcSteps : SvcTransitionToAnalyzing(f, i)
    \/ \E f \in Flows, i \in 1..MaxSvcSteps : SvcTransitionToCompleted(f, i)

SpecService == InitService /\ [][NextService]_vars

\* the clients of POST /campaigns/: spec 1 exists, spec 2 does not; up to
\* NumRequests requests are in flight
InitCreation == InitWith({1}, {})

NextCreation ==
    \/ \E q \in Requests, s \in Specs : CreateRequestChecks(q, s)
    \/ \E q \in Requests : CreateRequestInsertsCampaign(q)
    \/ \E q \in Requests : CreateRequestInsertsFlows(q)
    \/ \E q \in Requests : CreateRequestBreaksOff(q)

SpecCreation == InitCreation /\ [][NextCreation]_vars

\* ------------------------------------------------------------ properties
\* the state changes of a step the state machine has
StepForward == {<<GENERATING, COLLECTING_DATA>>, <<COLLECTING_DATA, ANALYZING>>,
                <<ANALYZING, COMPLETED>>}

\* C1: in every step of the system, each FlowStep row stays and either keeps
\* its state or moves GENERATING -> COLLECTING_DATA, COLLECTING_DATA ->
\* ANALYZING or ANALYZING -> COMPLETED: nothing moves backward, skips a state
\* or changes a COMPLETED step.
C1_StateMovesOneStepForward ==
    [][\A f \in Flows : \A k \in 1..Len(steps[f]) :
          /\ k <= Len(steps'[f])
          /\ \/ steps'[f][k].state = steps[f][k].state
             \/ <<steps[f][k].state, steps'[f][k].state>> \in StepForward]_vars

\* C1 witness: a job that was overtaken by the other runner asked for a
\* transition of a step that is COMPLETED by now, and was refused
C1_Witness ==
    /\ res.error = "InvalidStateTransitionError"
    /\ res.after = COMPLETED

\* the transition methods with the state they require and the state they set
TransitionMethods ==
    {[op |-> "transition_to_collecting", from |-> GENERATING, to |-> COLLECTING_DATA],
     [op |-> "transition_to_analyzing", from |-> COLLECTING_DATA, to |-> ANALYZING],
     [op |-> "transition_to_completed", from |-> ANALYZING, to |-> COMPLETED]}

\* C2: a transition method called on an existing step that is not in the
\* state the method requires raises InvalidStateTransitionError carrying the
\* step's current state and the method's target state, and the persisted
\* store is as it was before the call.
C2_WrongStateIsRefused ==
    \A t \in TransitionMethods :
        (svc.op = t.op /\ svc.before \in FlowStepState \ {t.from}) =>
            /\ svc.err = "InvalidStateTransitionError"
            /\ svc.cur = svc.before
            /\ svc.tgt = t.to
            /\ svc.after = svc.before
            /\ svc.same

\* C2 witness: transition_to_completed was called on a COLLECTING_DATA step
\* that has an AnalysisResult, and was refused
C2_Witness ==
    /\ svc.op = "transition_to_completed"
    /\ svc.before = COLLECTING_DATA
    /\ svc.err = "InvalidStateTransitionError"
    /\ has_analysis_result(steps, svc.flow, svc.step)

\* the iteration numbers of the steps of flow f
Iterations(f) == {steps[f][k].iteration : k \in 1..Len(steps[f])}

\* C3: the iteration numbers of the n steps of a flow are exactly 0..n-1,
\* each carried by one step, whatever passes created the steps and however
\* they interleaved.
C3_IterationsContiguous ==
    \A f \in Flows :
        /\ Iterations(f) = 0..(Len(steps[f]) - 1)
        /\ \A j, k \in 1..Len(steps[f]) :
              steps[f][j].iteration = steps[f][k].iteration => j = k

\* C3 witness: CREATE_NEXT_ITERATION has just added a step to a flow whose
\* first step was created by CREATE_FIRST_STEP or by a run_once pass
C3_Witness ==
    /\ res.job.type = CREATE_NEXT_ITERATION
    /\ res.success
    /\ Len(steps[res.job.flow]) = res.job.step + 1
    /\ Len(steps[res.job.flow]) >= 2

\* the number of COMPLETED steps of flow f
CompletedSteps(f) == Cardinality({k \in 1..Len(steps[f]) : steps[f][k].state = COMPLETED})

\* C4: a flow never has more COMPLETED steps, nor more steps at all, than the
\* max_iterations of its campaign spec, whatever value that is (0 and 1
\* included); and no step follows a COMPLETED step of iteration
\* max_iterations - 1.  The code creates and completes step 0 of a flow whose
\* max_iterations is 0, so this does not hold of it.
C4_StepsWithinMaxIterations ==
    \A f \in Flows :
        FlowCampaign(f) \in campaigns =>
            /\ CompletedSteps(f) <= maxIter[FlowCampaign(f)]
            /\ Len(steps[f]) <= maxIter[FlowCampaign(f)]
            /\ \A k \in 1..Len(steps[f]) :
                  (steps[f][k].state = COMPLETED
                     /\ steps[f][k].iteration = maxIter[FlowCampaign(f)] - 1)
                  => k = Len(steps[f])

\* the step of flow f with the highest iteration (f has a step)
TopStep(f) == CHOOSE k \in 1..Len(steps[f]) : steps[f][k].iteration = Max(Iterations(f))

\* C5: the job _get_job_for_flow yields for a flow is the one of the table:
\* no step: CREATE_FIRST_STEP, priority 0, no step id; highest-iteration step
\* GENERATING: RUN_GENERATING, 1; COLLECTING_DATA: RUN_COLLECTING_DATA, 2;
\* ANALYZING: RUN_ANALYZING, 3; COMPLETED with iteration < max_iterations - 1:
\* CREATE_NEXT_ITERATION, 0; COMPLETED with iteration = max_iterations - 1: no
\* job.  A job's step id is the flow's highest-iteration step.
C5_JobTable ==
    \A f \in Flows :
        FlowCampaign(f) \in campaigns =>
            LET j == get_job_for_flow(steps, f)
                m == maxIter[FlowCampaign(f)]
            IN  IF steps[f] = <<>>
                THEN j = [type |-> CREATE_FIRST_STEP, flow |-> f, step |-> 0, priority |-> 0]
                ELSE LET s == steps[f][TopStep(f)] IN
                     /\ s.state = GENERATING =>
                          j = [type |-> RUN_GENERATING, flow |-> f,
                               step |-> TopStep(f), priority |-> 1]
                     /\ s.state = COLLECTING_DATA =>
                          j = [type |-> RUN_COLLECTING_DATA, flow |-> f,
                               step |-> TopStep(f), priority |-> 2]
                     /\ s.state = ANALYZING =>
                          j = [type |-> RUN_ANALYZING, flow |-> f,
                               step |-> TopStep(f), priority |-> 3]
                     /\ (s.state = COMPLETED /\ s.iteration < m - 1) =>
                          j = [type |-> CREATE_NEXT_ITERATION, flow |-> f,
                               step |-> TopStep(f), priority |-> 0]
                     /\ (s.state = COMPLETED /\ s.iteration = m - 1) => j = NoJob

\* C5 witness: the second of two iterations is COMPLETED and the pass that
\* completed it is offered no job for the flow
C5_Witness ==
    \E f \in Flows :
        /\ FlowCampaign(f) \in campaigns
        /\ maxIter[FlowCampaign(f)] = 2
        /\ Len(steps[f]) = 2
        /\ steps[f][2].state = COMPLETED
        /\ res.job.type = RUN_ANALYZING
        /\ res.success
        /\ get_job_for_flow(steps, f) = NoJob

\* the flows a discovery call of scope c scans (0: the flows of every
\* campaign), and those of them that have a due job; the scan goes by
\* ascending campaign and flow
Scanned(c) == {f \in Flows : FlowCampaign(f) \in campaigns /\ (c = 0 \/ FlowCampaign(f) = c)}
Due(c) == {f \in Scanned(c) : get_job_for_flow(steps, f) # NoJob}

C8_OneOpenStepAtTheTop ==
    \A f \in Flows : \A k \in 1..Len(steps[f]) :
        /\ steps[f][k].state # COMPLETED =>
              \A j \in 1..Len(steps[f]) :
                  j # k => steps[f][j].iteration < steps[f][k].iteration
        /\ \A j \in 1..Len(steps[f]) :
              steps[f][j].iteration >= steps[f][k].iteration + 1 =>
                  steps[f][k].state = COMPLETED

\* C8 witness: one runner is still inside a job of step 1, which the other
\* runner has completed and followed by step 2, not COMPLETED yet
C8_Witness ==
    \E f \in Flows : \E r \in DOMAIN run :
        /\ Len(steps[f]) = 2
        /\ steps[f][2].state # COMPLETED
        /\ run[r].pc \notin {"idle", "loop"}
        /\ run[r].job.flow = f
        /\ run[r].job.step = 1

\* C9: a step in COLLECTING_DATA, ANALYZING or COMPLETED has a
\* GenerationResult, and a COMPLETED step has an AnalysisResult.
C9_ResultsBehindStates ==
    \A f \in Flows : \A k \in 1..Len(steps[f]) :
        /\ steps[f][k].state \in {COLLECTING_DATA, ANALYZING, COMPLETED} => steps[f][k].gr >= 1
        /\ steps[f][k].state = COMPLETED => steps[f][k].ar >= 1

\* C9 witness: transition_to_collecting was refused for a GENERATING step
\* without GenerationResult, next to a step that went through to COMPLETED
C9_Witness ==
    /\ svc.op = "transition_to_collecting"
    /\ svc.before = GENERATING
    /\ svc.err = "ValueError"
    /\ \E k \in 1..Len(steps[svc.flow]) : steps[svc.flow][k].state = COMPLETED

C11_OneGenerationResultPerStep ==
    \A f \in Flows : \A k \in 1..Len(steps[f]) : steps[f][k].gr <= 1

\* C11 witness: a GenerationResult was asked for a step that has one and the
\* call was refused
C11_Witness ==
    /\ svc.op = "create_generation_result"
    /\ svc.err = "IntegrityError"
    /\ svc.same
    /\ steps[svc.flow][svc.step].gr = 1

\* C12: a RUN_GENERATING job on a step that has a GenerationResult from an
\* earlier failed attempt replaces it by a fresh one: when the job returns the
\* step has one GenerationResult holding the images of this attempt only, and
\* the job has failed only if this attempt produced no image.
C12_RetryGeneratesAfresh ==
    res.job.type = RUN_GENERATING =>
        LET step == steps[res.job.flow][res.job.step] IN
        /\ step.gr = 1
        /\ step.images = res.produced
        /\ ~res.success => res.error = "No images were generated"

\* C13: a RUN_COLLECTING_DATA job completes its phase whenever the analytics
\* adapter answers with one entry per image, also when it is re-executed on a
\* step that holds the ImageMetrics rows an interrupted attempt left: the job
\* succeeds, the step is in ANALYZING and every image has its one metrics row.
C13_RecoveryCompletesPhase ==
    [][\A r \in DOMAIN run :
          (/\ run[r].pc = "generate_analytics"
           /\ run'[r].pc # "generate_analytics"
           /\ faults' = faults)
          => LET f == run[r].job.flow
                 k == run[r].job.step
             IN  /\ res'.success
                 /\ steps'[f][k].state = ANALYZING
                 /\ steps'[f][k].metrics = 1..steps'[f][k].images]_vars

\* C14: when a job ends with an exception caught by execute_job, the rows of
\* its step (state, GenerationResult, images, ImageMetrics, AnalysisResult)
\* are those the job found when it started, and no other step has changed.
C14_FailedJobLeavesNoWrite ==
    [][\A r \in DOMAIN run :
          (/\ run[r].pc # "idle"
           /\ run[r].counted
           /\ run'[r] # run[r]
           /\ res'.job.type # "none"
           /\ res'.error \in CaughtExceptions)
          => LET f == res'.job.flow
                 k == res'.job.step
                 found == IF run[r].pc = "loop" THEN steps[f][k] ELSE run[r].before
             IN  /\ steps'[f][k] = found
                 /\ \A g \in Flows : \A j \in 1..Len(steps[g]) :
                        <<g, j>> # <<f, k>> => steps'[g][j] = steps[g][j]
                 /\ \A g \in Flows : Len(steps'[g]) = Len(steps[g])]_vars

\* the positions of a pass: outside a pass, between two jobs, at an await
PassPositions == {"idle", "loop", "generate_image", "describe_image",
                  "generate_analytics", "analyze_winning_images", "modify_prompt"}

\* C15: an exception raised inside a job handler ends the job with a
\* JobResult of success = False whose error names the exception; it leaves
\* neither execute_job nor the pass: the pass is between two jobs or has
\* ended, so that the next tick can start.
C15_ExceptionBecomesFailedResult ==
    /\ \A r \in DOMAIN run : run[r].pc \in PassPositions
    /\ res.error \in CaughtExceptions =>
          /\ res.job.type # "none"
          /\ ~res.success
          /\ \E r \in DOMAIN run : run[r].pc \in {"idle", "loop"}

\* C15 witness: create_image_metrics raised IntegrityError inside
\* RUN_COLLECTING_DATA and the run_once pass is back in its loop, where it
\* derives the same job again
C15_Witness ==
    /\ res.job.type = RUN_COLLECTING_DATA
    /\ res.error = "IntegrityError"
    /\ ~res.success
    /\ run[RUN_ONCE].pc = "loop"
    /\ get_next_job(steps, run[RUN_ONCE].scope) = res.job

\* C16: once a job of a pass (run_once or the campaign run) returns
\* success = False, the pass executes no further job: it has ended when the
\* failed job returns.
C16_FailedJobEndsThePass ==
    [][\A r \in DOMAIN run :
          (/\ run[r].pc # "idle"
           /\ run'[r] # run[r]
           /\ res'.job.type # "none"
           /\ ~res'.success)
          => run'[r].pc = "idle"]_vars

\* C17: a run_once pass makes at most max_jobs_per_run execute_job calls, the
\* CREATE_FIRST_STEP jobs of _ensure_first_steps_created included: a job that
\* returns was not called beyond that number.
C17_PassExecutesAtMostMaxJobs ==
    [][(/\ run[RUN_ONCE].pc # "idle"
        /\ run[RUN_ONCE].counted
        /\ run'[RUN_ONCE] # run[RUN_ONCE]
        /\ res'.job.type # "none")
       => run[RUN_ONCE].executed + 1 <= MaxJobsPerRun]_vars

\* a flow that has steps and no due job
Finished(f) == get_latest_step(steps, f) # 0 /\ get_job_for_flow(steps, f) = NoJob

\* C18: if every job of flow 1 fails while every job of flow 2 succeeds, then
\* under the ticks of the scheduler loop, each pass returning, flow 2
\* eventually has no due job.
C18_FailingFlowStarvesNoOther ==
    (/\ PassesReturn
     /\ [](res.job.flow = 1 => ~res.success)
     /\ [](res.job.flow = 2 => res.success))
        => <>Finished(2)

\* a flow whose campaign has run to its end: max_iterations steps, all
\* COMPLETED, each with one GenerationResult that holds an image, an
\* ImageMetrics row for every image and one AnalysisResult
RanToItsEnd(f) ==
    /\ Len(steps[f]) = maxIter[FlowCampaign(f)]
    /\ \A k \in 1..Len(steps[f]) :
          /\ steps[f][k].state = COMPLETED
          /\ steps[f][k].gr = 1
          /\ steps[f][k].images >= 1
          /\ steps[f][k].metrics = 1..steps[f][k].images
          /\ steps[f][k].ar = 1

\* C19: if every RUN_GENERATING job succeeds (it produced an image) and the
\* scheduler loop keeps ticking, each pass returning, then every flow of a
\* campaign with max_iterations >= 1 eventually has no due job, and a flow
\* without due job has run to its end.
C19_HealthyCampaignRunsToItsEnd ==
    (/\ PassesReturn
     /\ [](res.job.type = RUN_GENERATING => res.success))
        => \A f \in TickSpecs :
              /\ <>Finished(f)
              /\ [](Finished(f) => RanToItsEnd(f))

\* C20: a RUN_COLLECTING_DATA job (its step is in COLLECTING_DATA and has an
\* image) whose analytics adapter was unavailable or in error, so that the
\* fallback analytics were used, returns success = True and leaves the step in
\* ANALYZING. The vision adapter has no outcome that reaches the job: it
\* returns a description or the fallback description.
C20_CollectingSurvivesAdapterFailure ==
    (res.job.type = RUN_COLLECTING_DATA /\ res.used_fallback) =>
        /\ res.success
        /\ steps[res.job.flow][res.job.step].state = ANALYZING

\* C21: a RUN_ANALYZING job whose prompt-refinement adapter was unavailable
\* or in error returns success = True, leaves the step COMPLETED and has
\* stored one AnalysisResult whose refined prompt is the prompt of the step's
\* GenerationResult; a job whose analysis adapter was unavailable or in error
\* ends the same way unless the refinement reply itself was refused.
C21_AnalyzingSurvivesAdapterFailure ==
    res.job.type = RUN_ANALYZING =>
        LET step == steps[res.job.flow][res.job.step] IN
        /\ res.prompt_fallback =>
              /\ res.success
              /\ step.state = COMPLETED
              /\ step.ar = 1
              /\ step.qualitative_diff = step.prompt
        /\ (res.analysis_fallback /\ res.error # "ValidationError") =>
              /\ res.success
              /\ step.state = COMPLETED
              /\ step.ar = 1

\* C21 witness: both adapters of a RUN_ANALYZING job gave their fallback and
\* the step is COMPLETED with its prompt as the refined prompt
C21_Witness ==
    /\ res.job.type = RUN_ANALYZING
    /\ res.analysis_fallback
    /\ res.prompt_fallback
    /\ res.success
    /\ steps[res.job.flow][res.job.step].state = COMPLETED
    /\ steps[res.job.flow][res.job.step].qualitative_diff = initial_prompt

\* C22: a step of iteration 0 has no input_embedding and no input_insights; a
\* step of iteration k > 0 has the output_embedding and the qualitative_diff
\* (the refined prompt) of the AnalysisResult of the same flow's step of
\* iteration k - 1; and no step of the system changes these two fields of an
\* existing step.
C22_InputsCarriedAcrossIterations ==
    /\ [](\A f \in Flows : \A k \in 1..Len(steps[f]) :
            IF steps[f][k].iteration = 0
            THEN /\ steps[f][k].input_embedding = NoEmbedding
                 /\ steps[f][k].input_insights = None
            ELSE \E j \in 1..Len(steps[f]) :
                    /\ steps[f][j].iteration = steps[f][k].iteration - 1
                    /\ steps[f][j].ar = 1
                    /\ steps[f][k].input_embedding = steps[f][j].output_embedding
                    /\ steps[f][k].input_insights = steps[f][j].qualitative_diff)
    /\ [][\A f \in Flows : \A k \in 1..Len(steps[f]) :
            /\ steps'[f][k].input_embedding = steps[f][k].input_embedding
            /\ steps'[f][k].input_insights = steps[f][k].input_insights]_vars

\* C22 witness: the step of iteration 1 carries the embedding of iteration 0
\* and the prompt its analysis stored, here the unchanged initial prompt, and
\* has moved on since it was created
C22_Witness ==
    \E f \in Flows :
        /\ Len(steps[f]) = 2
        /\ steps[f][2].iteration = 1
        /\ steps[f][2].input_embedding = mean_embedding(0)
        /\ steps[f][2].input_insights = initial_prompt
        /\ steps[f][1].qualitative_diff = initial_prompt
        /\ steps[f][2].state = COLLECTING_DATA

\* C23: every campaign spec has at most one Campaign (and the flows of one),
\* also when create requests for the same spec interleave; and a create
\* request whose spec has a campaign ends with CampaignAlreadyExistsError
\* and leaves the campaigns and the flows as they were.
C23_OneCampaignPerSpec ==
    /\ [](\A s \in Specs : creation.rows[s] <= 1 /\ creation.flows[s] <= 1)
    /\ [][\A q \in Requests :
            (/\ creation.req[q].pc = "checked"
             /\ creation'.req[q] # creation.req[q]
             /\ creation.rows[creation.req[q].spec] > 0)
            => /\ creation'.req[q].outcome = "CampaignAlreadyExistsError"
               /\ creation'.rows = creation.rows
               /\ creation'.flows = creation.flows
               /\ campaigns' = campaigns]_vars

\* the winners and the losers a returned selection call gave
Winners == IF fn.op = "select_top_images_by_score" THEN fn.out.top
           ELSE fn.out.top_image_ids
Losers == IF fn.op = "select_top_images_by_score" THEN fn.out.bottom
          ELSE fn.out.bottom_image_ids

\* image a ranks before image b: a higher score, or the same score and an
\* earlier place in the input
RanksBefore(a, b) ==
    \/ fn.items[a].score > fn.items[b].score
    \/ fn.items[a].score = fn.items[b].score /\ a < b

\* a selection call that returned a result
Selected ==
    /\ fn.op \in {"select_top_images_by_score", "analyze_image_differences"}
    /\ fn.returned
    /\ fn.op = "analyze_image_differences" => fn.out.raised = "none"

\* C24: select_top_images_by_score, and analyze_image_differences in its top
\* and bottom ids, split n images with distinct ids into winners and losers:
\* the winners are the min(top_n, n) images that rank first, in descending
\* score order with equal scores in input order; the losers are exactly the
\* other ids; no id is in both lists or twice in one.
C24_WinnersAndLosersSplit ==
    Selected =>
        LET n == Len(fn.items) IN
        /\ Len(Winners) = Min(fn.n, n)
        /\ \A i, j \in 1..Len(Winners) : i < j => RanksBefore(Winners[i], Winners[j])
        /\ \A i \in 1..Len(Winners) : \A j \in 1..Len(Losers) :
              RanksBefore(Winners[i], Losers[j])
        /\ {Losers[j] : j \in 1..Len(Losers)}
              = (1..n) \ {Winners[i] : i \in 1..Len(Winners)}
        /\ Len(Winners) + Len(Losers) = n

\* C24 witness: of three images the second scores highest and the first and
\* the third score the same; with top_n = 2 the first is a winner and the
\* third the loser
C24_Witness ==
    /\ fn.op = "select_top_images_by_score"
    /\ fn.returned
    /\ fn.n = 2
    /\ Len(fn.items) = 3
    /\ fn.items[1].score = fn.items[3].score
    /\ fn.out.top = <<2, 1>>
    /\ fn.out.bottom = <<3>>

\* the assets of type t in a pool
OfType(pool, t) == {i \in 1..Len(pool) : pool[i].type = t}

\* C25: filter_assets_by_iteration at iteration k >= 1 keeps, of every
\* category that has n >= 1 assets in the pool, at least 1 and at most
\* ceil(n / (k + 1)) assets, whichever of the assets carry an embedding; at
\* iteration 0 it returns the pool unchanged.
C25_NarrowingKeepsEachCategory ==
    (fn.op = "filter_assets_by_iteration" /\ fn.returned) =>
        IF fn.n = 0 THEN fn.out = fn.items
        ELSE \A t \in AssetTypes :
                LET n == Cardinality(OfType(fn.items, t))
                    kept == Cardinality(OfType(fn.out, t))
                IN  n >= 1 => /\ kept >= 1
                              /\ kept <= (n + fn.n) \div (fn.n + 1)

\* the report a status request of kind op has returned
Reported(op) == fn.op = op /\ fn.n \in campaigns

\* the next_job a report must show for flow f
DerivedNextJob(f) ==
    IF get_job_for_flow(steps, f) = NoJob THEN "complete"
    ELSE get_job_for_flow(steps, f).type

\* C26: on one persisted state the status surface agrees with discovery: for
\* every flow, get_flow_status and get_campaign_status report as next_job the
\* type of the job _get_job_for_flow derives ("complete" when there is
\* none); the current iteration and state reported are those of the flow's
\* highest-iteration step; and pending_jobs is the number of the campaign's
\* flows that have a due job.
C26_StatusAgreesWithDiscovery ==
    /\ Reported("get_flow_status") =>
          /\ fn.out.error = "none"
          /\ fn.out.next_job = DerivedNextJob(fn.n)
    /\ Reported("get_campaign_status") =>
          /\ fn.out.error = "none"
          /\ fn.out.pending_jobs = Cardinality(Due(fn.n))
          /\ fn.out.total_flows = Cardinality(Scanned(fn.n))
          /\ {fn.out.flows[i].flow_id : i \in 1..Len(fn.out.flows)} = Scanned(fn.n)
          /\ \A i \in 1..Len(fn.out.flows) :
                LET e == fn.out.flows[i]
                    f == e.flow_id
                IN  /\ e.next_job = DerivedNextJob(f)
                    /\ IF steps[f] = <<>>
                       THEN e.current_iteration = 0 - 1 /\ e.current_state = None
                       ELSE /\ e.current_iteration = steps[f][TopStep(f)].iteration
                            /\ e.current_state = steps[f][TopStep(f)].state

\* C26 witness: the status of a campaign whose flow has completed its last
\* iteration: no pending job, next_job "complete", state COMPLETED of the
\* second iteration
C26_Witness ==
    /\ Reported("get_campaign_status")
    /\ fn.out.pending_jobs = 0
    /\ Len(fn.out.flows) = 1
    /\ fn.out.flows[1].next_job = "complete"
    /\ fn.out.flows[1].current_iteration = 1
    /\ fn.out.flows[1].current_state = COMPLETED

\* a call of analyze_image_differences that has returned or raised
Analyzed == fn.op = "analyze_image_differences" /\ fn.returned

\* the items before position i are AnalyticsData or ImageData with analytics
AcceptedBefore(i) == \A j \in 1..(i - 1) : fn.items[j].kind = "analytics"

\* C27: analyze_image_differences never raises because of the analysis
\* service: on valid input, when the API key is missing, the call raises
\* RateLimitError, APIConnectionError or APIError, or the reply is not valid
\* JSON, it returns the fixed fallback text and the tags
\* ['analysis_unavailable'] with the top_image_ids and bottom_image_ids it
\* returns for the same input when the service replies.
C27_FallbackOnServiceFailure ==
    Analyzed =>
        /\ fn.out.raised \notin AnalysisAnswers
        /\ (AcceptedBefore(Len(fn.items) + 1) /\ Len(fn.items) >= fn.n + 1
                /\ fn.answer # "reply") =>
              LET success == analyze_image_differences(fn.items, fn.n, "reply") IN
              /\ fn.out.raised = "none"
              /\ fn.out.differentiation_text = "Analysis could not be generated"
              /\ fn.out.differentiation_tags = <<"analysis_unavailable">>
              /\ success.raised = "none"
              /\ fn.out.top_image_ids = success.top_image_ids
              /\ fn.out.bottom_image_ids = success.bottom_image_ids

\* C27 witness: the reply for three images does not parse; the fallback
\* analysis comes with the winner (the second image) and the two losers
C27_Witness ==
    /\ Analyzed
    /\ fn.answer = "JSONDecodeError"
    /\ fn.n = 1
    /\ fn.out.raised = "none"
    /\ fn.out.differentiation_tags = <<"analysis_unavailable">>
    /\ fn.out.top_image_ids = <<2>>
    /\ fn.out.bottom_image_ids = <<1, 3>>

\* C28: analyze_image_differences rejects invalid input before any winner
\* selection or API call: ValueError when the first item it cannot use is an
\* ImageData without analytics, TypeError when that item is neither ImageData
\* nor AnalyticsData, and ValueError ('Not enough images to compare') when
\* every item is usable and fewer than top_n + 1 are given; any other input
\* is accepted.
C28_InvalidInputRejected ==
    Analyzed =>
        /\ \A i \in 1..Len(fn.items) :
              (AcceptedBefore(i) /\ fn.items[i].kind = "no_analytics")
                  => fn.out.raised = "ValueError: no analytics data"
        /\ \A i \in 1..Len(fn.items) :
              (AcceptedBefore(i) /\ fn.items[i].kind = "other")
                  => fn.out.raised = "TypeError"
        /\ (AcceptedBefore(Len(fn.items) + 1) /\ Len(fn.items) < fn.n + 1)
              => fn.out.raised = "ValueError: Not enough images to compare"
        /\ (AcceptedBefore(Len(fn.items) + 1) /\ Len(fn.items) >= fn.n + 1)
              => fn.out.raised = "none"
        /\ fn.out.raised # "none" => ~fn.out.selected /\ ~fn.out.api_called

\* C28 witness: an ImageData without analytics ahead of an object of another
\* type is refused with ValueError; nothing was selected and no call made
C28_Witness ==
    /\ Analyzed
    /\ Len(fn.items) = 3
    /\ fn.items[1].kind = "analytics"
    /\ fn.items[2].kind = "no_analytics"
    /\ fn.items[3].kind = "other"
    /\ fn.answer = "reply"
    /\ fn.out.raised = "ValueError: no analytics data"
    /\ ~fn.out.selected
    /\ ~fn.out.api_called

\* C29: whenever a step is in ANALYZING or COMPLETED, its GenerationResult
\* has at least one GeneratedImage and every GeneratedImage of it has exactly
\* one ImageMetrics row, whatever list the analytics adapter returned for the
\* step.
C29_EveryImageHasItsMetrics ==
    \A f \in Flows : \A k \in 1..Len(steps[f]) :
        steps[f][k].state \in {ANALYZING, COMPLETED}
            => /\ steps[f][k].gr >= 1
               /\ steps[f][k].images >= 1
               /\ steps[f][k].metrics = 1..steps[f][k].images

\* C30: for every step of iteration k > 0 the prompt recorded in its
\* GenerationResult is the step's input_insights, the refined prompt that
\* RUN_ANALYZING stored for iteration k-1, whatever text the refinement
\* adapter returned; a step of iteration 0 has no input_insights and records
\* the flow's initial prompt.
C30_RefinedPromptTakesPrecedence ==
    \A f \in Flows : \A k \in 1..Len(steps[f]) :
        LET step == steps[f][k] IN
        step.gr >= 1 =>
            IF step.iteration > 0
            THEN /\ step.prompt = step.input_insights
                 /\ \A j \in 1..Len(steps[f]) :
                       steps[f][j].iteration = step.iteration - 1
                           => step.prompt = steps[f][j].qualitative_diff
            ELSE step.input_insights = None /\ step.prompt = initial_prompt

\* the state a step must be in for a job of this type
MatchingState(type) ==
    IF type = RUN_GENERATING THEN GENERATING
    ELSE IF type = RUN_COLLECTING_DATA THEN COLLECTING_DATA
    ELSE ANALYZING

\* the caller's job returns in this step
Returning(r) == run[r].pc # "idle" /\ run'[r].pc = "idle" /\ res'.job = discovered(r)

\* the row of the step of r's job as execute_job found it
FoundRow(r) ==
    IF run[r].pc = "loop" THEN steps[discovered(r).flow][discovered(r).step]
    ELSE run[r].before

\* C31: execute_job with a RUN_GENERATING, RUN_COLLECTING_DATA or
\* RUN_ANALYZING job whose step is not in the matching state returns
\* success=False reporting the invalid transition, and leaves the step's state
\* and its persisted GenerationResult, images, description tags, metrics and
\* AnalysisResult exactly as they were. Any error of the JobResult is taken
\* as the report.
C31_StaleJobIsRefusedWithoutWrites ==
    [][\A r \in DOMAIN run \cap {EXECUTE_JOB} :
          LET job == discovered(r) IN
          (/\ Returning(r)
           /\ job.type \in {RUN_GENERATING, RUN_COLLECTING_DATA, RUN_ANALYZING}
           /\ job.step # 0
           /\ FoundRow(r).state # MatchingState(job.type))
          => /\ ~res'.success
             /\ res'.error # "none"
             /\ steps'[job.flow][job.step] = FoundRow(r)]_vars

\* C32: CREATE_NEXT_ITERATION on a step that has no AnalysisResult returns
\* success=False with an explicit error and creates no step; it likewise
\* creates no step when the job carries no step id.
C32_NextIterationNeedsAnalysis ==
    [][\A r \in DOMAIN run \cap {EXECUTE_JOB} :
          LET job == discovered(r) IN
          (/\ run[r].pc = "loop"
           /\ run'[r].pc # "loop"
           /\ job.type = CREATE_NEXT_ITERATION)
          => /\ res'.job = job
             /\ job.step = 0
                   => /\ ~res'.success
                      /\ res'.error = "No step_id provided"
                      /\ steps' = steps
             /\ (job.step # 0 /\ steps[job.flow][job.step].ar = 0)
                   => /\ ~res'.success
                      /\ res'.error = "No analysis result found"
                      /\ steps' = steps]_vars

\* C32 witness: CREATE_NEXT_ITERATION for a step in ANALYZING, which has no
\* AnalysisResult, has failed and the flow still has its one step
C32_Witness ==
    /\ EXECUTE_JOB \in DOMAIN run
    /\ res.job.type = CREATE_NEXT_ITERATION
    /\ res.job.step = 1
    /\ ~res.success
    /\ res.error = "No analysis result found"
    /\ Len(steps[res.job.flow]) = 1
    /\ steps[res.job.flow][1].state = ANALYZING
    /\ steps[res.job.flow][1].ar = 0

\* the job runner r executes in this step
CurrentJob(r) == IF run[r].pc = "loop" THEN discovered(r) ELSE run[r].job

C34_CampaignNeverWithoutFlows ==
    \A s \in Specs : creation.flows[s] = creation.rows[s]

\* C35: every GeneratedImage of a step that has passed COLLECTING_DATA
\* carries exactly one 'description:' tag, also when RUN_COLLECTING_DATA
\* failed part-way and was retried or was executed twice for the step.
C35_OneDescriptionTagPerImage ==
    \A f \in Flows : \A i \in 1..Len(steps[f]) :
        steps[f][i].state \in {ANALYZING, COMPLETED} => steps[f][i].descriptions = 1

\* the asset the k-th set of a returned selection holds for type t
Chosen(t, k) == fn.out.asset_sets[k][t]

\* the assets of type t in the pool of the call, and those of them that
\* were used before the call
PoolOfType(t) == {fn.items[i].id : i \in {j \in DOMAIN fn.items : fn.items[j].type = t}}
UsedBefore(t) == PoolOfType(t) \cap fn.answer

\* the k-th choice of type t falls into this round of the rotation: round 0
\* is what is left of the round the earlier uses began
Round(t, k) ==
    LET m == Cardinality(PoolOfType(t))
        begun == IF UsedBefore(t) = PoolOfType(t) THEN 0 ELSE Cardinality(UsedBefore(t))
    IN  (begun + k - 1) \div m

\* C36: select_asset_sets on a non-empty pool returns exactly num_sets sets,
\* every set holds exactly one asset of every type present in the pool, and
\* within a type no asset is chosen again before all assets of the type have
\* been chosen: two choices of one round of the rotation differ, and the
\* round that earlier uses began leaves out the assets used before.
C36_SetsRotateThroughThePool ==
    (fn.op = "select_asset_sets" /\ fn.returned /\ fn.items # <<>>) =>
        LET types == {fn.items[i].type : i \in DOMAIN fn.items}
            sets == fn.out.asset_sets
        IN  /\ Len(sets) = fn.n
            /\ \A k \in 1..Len(sets) :
                  /\ DOMAIN sets[k] = types
                  /\ \A t \in types : Chosen(t, k) \in PoolOfType(t)
            /\ \A t \in types : \A j, k \in 1..Len(sets) :
                  (j < k /\ Round(t, j) = Round(t, k)) => Chosen(t, j) # Chosen(t, k)
            /\ \A t \in types : \A k \in 1..Len(sets) :
                  (Round(t, k) = 0 /\ UsedBefore(t) # PoolOfType(t))
                      => Chosen(t, k) \notin UsedBefore(t)

\* C36 witness: three sets from a pool with two backgrounds and one product,
\* one background used before; the rotation of the backgrounds was reset and
\* the third set repeats the background of the first
C36_Witness ==
    /\ fn.op = "select_asset_sets"
    /\ fn.returned
    /\ fn.n = 3
    /\ Len(fn.items) = 3
    /\ Cardinality(PoolOfType("background")) = 2
    /\ Cardinality(UsedBefore("background")) = 1
    /\ Chosen("background", 1) = Chosen("background", 3)
    /\ Chosen("background", 1) # Chosen("background", 2)

\* C37: polling for an image result always terminates. _poll_flux_result
\* returns when the status is Ready, raises FluxGenerationError when the
\* status is Failed or Error, or when the status is neither and more than the
\* timeout has passed; and generate_image_with_flux returns, with a result
\* of success = False after every error of the polling.
C37_PollingTerminates ==
    /\ <>(fn.returned)
    /\ [][(fn.pc = "poll" /\ fn' # fn) =>
            /\ fn'.status = "Ready" => (fn'.poll = "returned" /\ ~fn'.returned)
            /\ fn'.status \in {"Failed", "Error"} => fn'.poll = "FluxGenerationError"
            /\ (fn'.status \in {"Pending", None} /\ fn'.elapsed > poll_timeout)
                   => fn'.poll = "FluxGenerationError"
            /\ fn'.poll \in {"FluxGenerationError", "Exception"}
                   => (fn'.returned /\ ~fn'.out.success)]_vars

\* C37 witness: the call has returned without success because the polling
\* timed out, more than poll_timeout seconds after it began
C37_Witness ==
    /\ fn.op = "generate_image_with_flux"
    /\ fn.returned
    /\ ~fn.out.success
    /\ fn.status = "Pending"
    /\ fn.poll = "FluxGenerationError"
    /\ fn.elapsed > poll_timeout

\* the state a step is in when a job of this type is due for it
DueIn(type) ==
    CASE type = RUN_GENERATING -> GENERATING
      [] type = RUN_COLLECTING_DATA -> COLLECTING_DATA
      [] type = RUN_ANALYZING -> ANALYZING
      [] OTHER -> "none"

C39_EveryTurnExecutesOrLeaves ==
    /\ [][\A r \in DOMAIN run :
            (run[r].pc = "loop" /\ run'[r] # run[r]) =>
                \/ run'[r].pc # "loop"
                \/ run'[r].processed = run[r].processed + 1]_vars
    /\ PassesReturn

\* C40: after every successful job, the next_job of its JobResult (type,
\* flow, step, priority) is the job discovery derives for the flow from the
\* store the job leaves, and it is None exactly when discovery finds no job
\* for the flow.
C40_NextJobIsTheDiscoveredJob ==
    [][(res'.success /\ (res' # res \/ steps' # steps)) =>
          res'.next_job = get_job_for_flow(steps', res'.job.flow)]_vars

\* C40 witness: RUN_ANALYZING of the last iteration has succeeded with no
\* next job, the flow has no due job
C40_Witness ==
    /\ res.success
    /\ res.job.type = RUN_ANALYZING
    /\ res.next_job = NoJob
    /\ steps[res.job.flow][res.job.step].state = COMPLETED
    /\ steps[res.job.flow][res.job.step].iteration = maxIter[FlowCampaign(res.job.flow)] - 1
    /\ get_job_for_flow(steps, res.job.flow) = NoJob

====
